---- MODULE Spec2Model ----
(***************************************************************************)
(* A model of kingress, a Kubernetes ingress proxy:                        *)
(*   - the resolver cache (src/resolvers/cache.rs),                        *)
(*   - Backend::connect and the HTTP/1 handler's error replies (main.rs),  *)
(*   - the HTTP/1 framing computation (src/http1.rs),                      *)
(*   - HostConfig::endpoint_for (src/lib.rs).                              *)
(* Each subsystem has its own specification; the variables of the other    *)
(* subsystems stay at their idle values under it.                          *)
(***************************************************************************)
EXTENDS Integers, Sequences, FiniteSets, TLC

VARIABLES
    \* ---- resolver cache ------------------------------------------------
    size,       \* Builder.size: the configured cache size
    lru,        \* the LruCache: <<key, slot>> pairs, most recently used first
    lruOwner,   \* task holding the Mutex around the LruCache, 0 if free
    slotVal,    \* slot id -> Option<ResolveResult> (the Arc<Mutex<..>> payloads)
    slotOwner,  \* slot id -> task holding the slot's Mutex, 0 if free
    pc,         \* task -> position inside Cache::resolve
    key,        \* task -> ep.to_string() of its call
    entry,      \* task -> slot id of its cache_entry clone, 0 if none
    ret,        \* task -> the Vec<SocketAddr> its call returned
    found,      \* task -> what it saw in the slot: "none", "empty", "hit", "expired"
    tcalls,     \* task -> number of Resolver::resolve calls its call made
    started,    \* number of Cache::resolve calls started so far
    \* history of each live slot, for the single-flight properties
    slotCalls,  \* slot id -> number of Resolver::resolve calls made under its guard
    slotStale   \* slot id -> some holder found an expired entry in it

VARIABLES
    \* ---- Backend::connect and the handler's match on it ------------------
    secure_backends, \* endpoint.opts.secure_backends
    resolved,        \* the ResolveResult ctx().resolve(endpoint) answers from
    reachable,       \* the addresses whose TcpStream::connect succeeds
    tls_ok,          \* whether connect_tls succeeds
    backends,        \* the address iterator of Backend::connect
    shuffled,        \* the address list as fastrand::shuffle left it
    backend_addr,    \* the address connected to, 0 if none
    connect_result,  \* "", "Ok", "LookupFailed" or "ConnectFailed"
    cpc,             \* position inside Backend::connect / the handler
    reply            \* the status the handler replied with, "" if none

VARIABLES
    \* ---- http1::Reader ---------------------------------------------------
    kind,            \* Reader.kind: HeaderKind
    summary,         \* Reader.summary: HeaderSummary
    nheaders,        \* headers read so far
    hpc,             \* "line", "headers", "body", "error"
    body_length,     \* what content_length() returned after EndOfHeader
    on_wire          \* the headers read so far as they were on the wire, summed up

VARIABLES
    \* ---- routing of one request ------------------------------------------
    full_req_path,   \* the request target of the request line
    host_known,      \* whether ctx().host(host) finds the host
    host_cfg,        \* the HostConfig found
    endpoint,        \* the Endpoint routed to, None if none
    route_reply,     \* the status the handler replied with, "" if none
    rpc              \* "request", "mapped", "returned"

VARIABLES
    \* ---- handle_http1_connection: one client connection -----------------
    h_pc,            \* position inside handle_http1_connection
    forwarded_proto, \* "http" or "https": the listener the connection came in on
    lines_read,      \* the lines read from the client on the connection so far
    served,          \* requests of this connection whose first bytes arrived
    prev,            \* the carried-over (endpoint, backend), None if none
    backend_log,     \* the Backend::connect and Backend::shutdown calls, in order
    sock_shut,       \* whether the client socket was shut down
    \* the request being handled
    h_input,         \* the bytes the client sent for the last reader call
    req_line,        \* req_line: the request line as read
    h_method,        \* the reader's HeaderKind::Request method
    h_path,          \* full_req_path
    rd_count,        \* the reader's count of bytes read
    host_line,       \* header: the first header as read
    in_headers,      \* the headers read after the first one, as read
    h_error,         \* the error of the reader call that failed, "" if none
    h_summary,       \* the reader's HeaderSummary
    h_hosts,         \* the snapshot ctx().host() looked the host up in
    h_host,          \* host: the normalized host
    h_endpoint,      \* endpoint: the endpoint routed to, None if none
    initial_data,    \* initial_data: the http1::Writer buffer for the backend
    h_reply,         \* what the handler itself wrote to the client
    req_content_length, \* reader.content_length after the header
    backend,         \* the backend in use, 0 if none
    dialed,          \* whether this request made a Backend::connect call
    \* forward_to_backend
    hdr_unsent,      \* bytes of initial_data the backend did not accept
    body_sent,       \* whether request body bytes were written to the backend
    copy_req_done,   \* copy_req has completed
    resp_hdr_sent,   \* the whole response header block was written to the client
    resp_body_sent,  \* whether response body bytes were written to the client
    copy_resp_done,  \* copy_resp has completed
    resp_length, \* what copy_response_header returned, "unset" before
    fwd_result,      \* what Backend::forward returned, "unset" before
    can_reuse        \* the handler's can_reuse, "unset" before

VARIABLES
    \* ---- KubeWatcher ------------------------------------------------------
    w_pc,            \* position inside KubeWatcher::run
    ingresses,       \* WatcherState.ingresses: key -> parsed Ingress
    ings_ready,      \* WatcherState.ings_ready
    secrets,         \* WatcherState.secrets: key -> certified key
    secrets_ready,   \* WatcherState.secrets_ready
    was_ready,       \* run_once's was_ready
    streams,         \* what each watcher stream of run_once may deliver next
    tx,              \* the snapshot in the watch channel, which readers see
    w_sends,         \* the snapshots published so far
    w_events,        \* the events ingested so far
    w_failures,      \* the failures of run_once so far
    w_last,          \* the event ingested last
    w_hist,          \* what is remembered of the changes ingested last
    inits_done,      \* the kinds that delivered InitDone since the start or the last failure
    tx_at_failure    \* the snapshot readers saw at the last failure

VARIABLES
    \* ---- http1::Writer and http1::Reader over one stream -------------------
    k_pc,            \* "writing", "reading", "failed"; "idle" without a stream
    k_wire,          \* the bytes of the stream not consumed yet
    k_items,         \* the lines written, as the fields given to the Writer
    k_limit,         \* Reader.limit
    k_count,         \* Reader.count
    k_consumed,      \* the bytes the Reader's calls consumed
    k_call           \* the Reader call made last and what it returned

VARIABLES
    \* ---- the watch channel between the assembler and the TLS callbacks ----
    c_pc,            \* position inside KubeWatcher::run_once
    c_ingresses,     \* WatcherState.ingresses
    c_ings_ready,    \* WatcherState.ings_ready
    c_secrets,       \* WatcherState.secrets
    c_secrets_ready, \* WatcherState.secrets_ready
    c_streams,       \* what each watcher stream may deliver next
    c_hosts,         \* run_once's local hosts: host -> Arc<HostConfig>
    c_todo,          \* the rules run_once has still to go through
    chan,            \* the Hosts in the watch channel: host -> Arc<HostConfig>
    heap,            \* the HostConfig each live Arc points to
    snap,            \* the snapshot sent last, by value
    t_pc,            \* position of a TLS handshake inside its callbacks
    t_name,          \* the server name of the handshake
    t_ref,           \* the Arc<HostConfig> the running callback holds
    t_seen,          \* the host's entry of the snapshot when Context::host ran
    t_crossed,       \* was a snapshot published while the callback held t_ref?
    t_out            \* what the callbacks answered

VARIABLES
    \* ---- the bytes of one client connection and of its backend's responses --
    x_pc,            \* position inside handle_http1_connection and forward_to_backend
    x_client,        \* all that the client sends on the connection
    x_pos,           \* how much of it was consumed from the client's BufReader
    x_hdr_end,       \* where the header block of the request read last ended
    x_req_len,       \* req_content_length
    x_to_backend,    \* the body bytes copy_req wrote to the backend for the request
    x_req_st,        \* copy_req: "run" or "done"
    x_resp,          \* all that the backend sends in answer to the request
    x_rpos,          \* how much of it was consumed from the backend's BufReader
    x_hdr_st,        \* copy_response_header: "run" or "done"
    x_resp_len,      \* response_length
    x_to_client,     \* the body bytes copy_resp wrote to the client for the response
    x_resp_st,       \* copy_resp: "run" or "done"
    x_result,        \* what forward_to_backend returned, "unset" before
    x_parsed         \* where request lines were parsed, with the request's body length

VARIABLES
    \* ---- copy_response_header over CopyingBytePeekRead ---------------------
    y_pc,            \* "parse", then "ok" or "err" as copy_response_header returned
    y_wire,          \* all that the backend sends
    y_end,           \* how much of it the Reader's calls consume, -1 when one fails
    y_src,           \* what of it the BufReader has not read yet
    y_buf,           \* the BufReader's buffer
    y_read_buf,      \* CopyingBytePeekRead.read_buf
    y_out,           \* the bytes written to the client
    y_consumed       \* the bytes the Reader consumed with read_byte

VARIABLES
    \* ---- handle_http2_connection ------------------------------------------
    d_pc,            \* "accepted", "connect", "copy", then "returned"
    d_chan,          \* the snapshot the watch channel holds
    d_seen,          \* the HostConfig the ALPN callback answered h2 for
    d_at,            \* the snapshot ctx().host read at dispatch, None before
    d_dial,          \* the arguments of Backend::connect, None when not called
    d_conn,          \* what Backend::connect returned, "" before
    d_client,        \* all that the client sends before it closes
    d_server,        \* all that the backend sends before it closes
    d_a_pos,         \* how much of d_client was read
    d_b_pos,         \* how much of d_server was read
    d_to_backend,    \* the bytes written to the backend
    d_to_client,     \* the bytes written to the client
    d_a_to_b,        \* TransferState of client to backend: "", "Running", "Done"
    d_b_to_a,        \* TransferState of backend to client
    d_result         \* "" while running, "closed" without forwarding, "Ok", "Err"

slotGhost == <<slotCalls, slotStale>>

connectVars == <<secure_backends, resolved, reachable, tls_ok, backends, shuffled,
                 backend_addr, connect_result, cpc, reply>>

readerVars == <<kind, summary, nheaders, hpc, body_length, on_wire>>

routeVars == <<full_req_path, host_known, host_cfg, endpoint, route_reply, rpc>>

cacheVars == <<size, lru, lruOwner, slotVal, slotOwner, pc, key, entry,
               ret, found, tcalls, started, slotCalls, slotStale>>

requestVars == <<h_input, req_line, h_method, h_path, rd_count, host_line, in_headers,
                 h_error, h_summary, h_hosts, h_host, h_endpoint, initial_data, h_reply,
                 req_content_length, backend, dialed>>

forwardVars == <<hdr_unsent, body_sent, copy_req_done, resp_hdr_sent, resp_body_sent,
                 copy_resp_done, resp_length, fwd_result, can_reuse>>

connVars == <<forwarded_proto, lines_read, served, prev, backend_log, sock_shut>>

handlerVars == <<h_pc, connVars, requestVars, forwardVars>>

watchVars == <<w_pc, ingresses, ings_ready, secrets, secrets_ready, was_ready, streams, tx,
               w_sends, w_events, w_failures, w_last, w_hist, inits_done, tx_at_failure>>

codecVars == <<k_pc, k_wire, k_items, k_limit, k_count, k_consumed, k_call>>

chanVars == <<c_pc, c_ingresses, c_ings_ready, c_secrets, c_secrets_ready, c_streams,
              c_hosts, c_todo, chan, heap, snap,
              t_pc, t_name, t_ref, t_seen, t_crossed, t_out>>

frameVars == <<x_pc, x_client, x_pos, x_hdr_end, x_req_len, x_to_backend, x_req_st,
               x_resp, x_rpos, x_hdr_st, x_resp_len, x_to_client, x_resp_st, x_result,
               x_parsed>>

copyVars == <<y_pc, y_wire, y_end, y_src, y_buf, y_read_buf, y_out, y_consumed>>

h2Vars == <<d_pc, d_chan, d_seen, d_at, d_dial, d_conn, d_client, d_server, d_a_pos, d_b_pos,
            d_to_backend, d_to_client, d_a_to_b, d_b_to_a, d_result>>

streamVars == <<frameVars, copyVars, h2Vars>>

coreVars == <<cacheVars, connectVars, readerVars, routeVars, handlerVars, watchVars,
              codecVars, chanVars>>

vars == <<coreVars, streamVars>>

-----------------------------------------------------------------------------
(* Bounds of the model.                                                    *)

NumTasks == 2
MaxCalls == 3
MaxSize == 1
MaxAddrs == 3
MaxHeaders == 2
MaxPathLen == 3

\* Option<T>
None == <<>>
Some(v) == <<v>>

\* The values of an option, as a set.
Opt_set(o) == {o[i] : i \in 1..Len(o)}

Tasks == 1..NumTasks

\* The endpoints resolved, as Endpoint::to_string renders them.
Keys == {"a.ns:80", "b.ns:80"}

-----------------------------------------------------------------------------
(* Resolver cache: src/resolvers/cache.rs                                  *)

\* Cache.expiry and Cache.negative_expiry, in ticks of the model's clock.
expiry == 2
negative_expiry == 1

\* Instants are kept relative to the present: Instant::now() is 0 and an
\* earlier Instant is negative. An Instant older than every TTL stays at Oldest.
Instant_now == 0
Oldest == 0 - ((IF expiry > negative_expiry THEN expiry ELSE negative_expiry) + 1)

\* What Resolver::resolve may answer: Err, or Ok with an address list.
ResolverAnswers ==
    { [ok |-> FALSE, v |-> <<>>],
      [ok |-> TRUE, v |-> <<1>>] }

\* Option<ResolveResult>::None
NoResult == [kind |-> "None"]

\* ResolveResult::new
ResolveResult_new(answer) ==
    LET t == Instant_now IN
    IF answer.ok
    THEN [kind |-> "Ok", cached_at |-> t, result |-> answer.v]
    ELSE [kind |-> "Failed", cached_at |-> t]

\* ResolveResult::age
age(r) == Instant_now - r.cached_at

\* ResolveResult::result
result(r) == IF r.kind = "Ok" THEN r.result ELSE <<>>

\* is_expired with >= for >.
is_expired_at_ttl(r) ==
    LET exp == IF r.kind = "Ok" THEN expiry ELSE negative_expiry
    IN  age(r) >= exp

\* Cache::is_expired
is_expired(r) ==
    LET exp == IF r.kind = "Ok" THEN expiry ELSE negative_expiry
    IN  age(r) > exp

\* build with a cache of one entry for size 0.
build_min_one(s) == [has_lru |-> TRUE, cap |-> IF s = 0 THEN 1 ELSE s]

\* Builder::build: the LruCache exists only for a non-zero size.
build(s) == [has_lru |-> s # 0, cap |-> s]

\* Position of key k in the LruCache, 0 if absent.
LruIndex(l, k) ==
    IF \E i \in 1..Len(l) : l[i][1] = k
    THEN CHOOSE i \in 1..Len(l) : l[i][1] = k
    ELSE 0

Remove(l, i) == SubSeq(l, 1, i - 1) \o SubSeq(l, i + 1, Len(l))

\* get_or_insert that never evicts.
get_or_insert_no_evict(l, cap, k, fresh) ==
    LET i == LruIndex(l, k) IN
    IF i # 0
    THEN [lru |-> <<l[i]>> \o Remove(l, i), slot |-> l[i][2], inserted |-> FALSE]
    ELSE [lru |-> <<<<k, fresh>>>> \o l, slot |-> fresh, inserted |-> TRUE]

\* LruCache::get_or_insert(key, || new slot): a hit moves the entry to the
\* head; a miss inserts at the head, evicting the tail when the cache is full.
get_or_insert(l, cap, k, fresh) ==
    LET i == LruIndex(l, k) IN
    IF i # 0
    THEN [lru |-> <<l[i]>> \o Remove(l, i), slot |-> l[i][2], inserted |-> FALSE]
    ELSE LET kept == IF Len(l) >= cap THEN SubSeq(l, 1, cap - 1) ELSE l
         IN  [lru |-> <<<<k, fresh>>>> \o kept, slot |-> fresh, inserted |-> TRUE]

\* lru.lock()'s guard bound to a variable instead: it would live to the end
\* of the function.
LruGuardKept(t) == t

\* The guard of lru.lock() is a temporary of the statement at lines 43-45:
\* it is dropped when the statement ends.
LruGuardAfterStatement(t) == 0

\* The slot's guard dropped before the underlying call.
SlotGuardDropped(t) == 0

\* cache_entry (line 47) is the slot's guard: it lives across the await of
\* resolve_no_cache (line 58), to the end of the function.
SlotGuardDuringResolve(t) == t

\* Slot ids: the LruCache holds at most cap Arcs and every task one clone.
Slots == 1..(MaxSize + NumTasks)

\* The Arcs alive: those the LruCache or a task's cache_entry refers to.
Live(l, e) == {l[i][2] : i \in 1..Len(l)} \cup {e[t] : t \in Tasks}

\* Arc::new: the first id no live Arc uses.
FreshSlot(live) == CHOOSE s \in Slots \ live : \A u \in Slots \ live : s <= u

\* Dropping the last reference frees the slot.
ArcDrop(f, live, none) == [s \in Slots |-> IF s \in live THEN f[s] ELSE none]

CacheStart(sizes) ==
    /\ size \in sizes
    /\ lru = <<>>
    /\ lruOwner = 0
    /\ slotVal = [s \in Slots |-> NoResult]
    /\ slotOwner = [s \in Slots |-> 0]
    /\ slotCalls = [s \in Slots |-> 0]
    /\ slotStale = [s \in Slots |-> FALSE]
    /\ started = 0
    /\ pc = [t \in Tasks |-> "idle"]
    /\ key = [t \in Tasks |-> ""]
    /\ entry = [t \in Tasks |-> 0]
    /\ ret = [t \in Tasks |-> <<>>]
    /\ found = [t \in Tasks |-> "none"]
    /\ tcalls = [t \in Tasks |-> 0]

CacheInit == CacheStart(0..MaxSize)

\* The cache as the other specifications leave it: built, never called.
CacheIdle == CacheStart({MaxSize})

\* Cache::resolve is called (lines 36-43): without an LruCache the call goes
\* straight to resolve_no_cache; with one it takes the LruCache's lock.
Call(t, k) ==
    /\ pc[t] = "idle"
    /\ started < MaxCalls
    /\ started' = started + 1
    /\ key' = [key EXCEPT ![t] = k]
    /\ IF build(size).has_lru
       THEN /\ lruOwner = 0
            /\ lruOwner' = t
            /\ pc' = [pc EXCEPT ![t] = "get_or_insert"]
            /\ tcalls' = tcalls
       ELSE /\ pc' = [pc EXCEPT ![t] = "no_cache"]
            /\ tcalls' = [tcalls EXCEPT ![t] = @ + 1]
            /\ lruOwner' = lruOwner
    /\ UNCHANGED <<size, lru, slotVal, slotOwner, entry, ret, found>>
    /\ UNCHANGED slotGhost
    /\ UNCHANGED <<connectVars, readerVars, routeVars, handlerVars, watchVars, codecVars, chanVars, streamVars>>

\* .get_or_insert(key, || Arc::new(Mutex::new(None))).clone() (lines 44-45);
\* an evicted Arc that no task holds is freed.
GetOrInsert(t) ==
    /\ pc[t] = "get_or_insert"
    /\ \E g \in {get_or_insert(lru, build(size).cap, key[t], FreshSlot(Live(lru, entry)))} :
       \E e \in {[entry EXCEPT ![t] = g.slot]} :
       \E live \in {Live(g.lru, e)} :
        /\ lru' = g.lru
        /\ entry' = e
        /\ slotVal' = ArcDrop(slotVal, live, NoResult)
        /\ slotOwner' = ArcDrop(slotOwner, live, 0)
        /\ slotCalls' = ArcDrop(slotCalls, live, 0)
        /\ slotStale' = ArcDrop(slotStale, live, FALSE)
    /\ lruOwner' = LruGuardAfterStatement(t)
    /\ pc' = [pc EXCEPT ![t] = "slot_lock"]
    /\ UNCHANGED <<size, key, ret, found, tcalls>>
    /\ UNCHANGED started
    /\ UNCHANGED <<connectVars, readerVars, routeVars, handlerVars, watchVars, codecVars, chanVars, streamVars>>

\* cache_entry.lock().await and the look at the slot (lines 47-58): a fresh
\* entry is returned and the guard dropped; otherwise the underlying
\* resolver is called with the slot's guard held.
LockSlot(t) ==
    /\ pc[t] = "slot_lock"
    /\ slotOwner[entry[t]] = 0
    /\ LET s == entry[t]
           r == slotVal[s]
       IN
       IF r # NoResult /\ ~is_expired(r)
       THEN /\ ret' = [ret EXCEPT ![t] = result(r)]
            /\ found' = [found EXCEPT ![t] = "hit"]
            /\ pc' = [pc EXCEPT ![t] = "done"]
            /\ UNCHANGED <<slotOwner, tcalls, slotCalls, slotStale>>
       ELSE /\ slotOwner' = [slotOwner EXCEPT ![s] = SlotGuardDuringResolve(t)]
            /\ found' = [found EXCEPT ![t] = IF r = NoResult THEN "empty" ELSE "expired"]
            /\ tcalls' = [tcalls EXCEPT ![t] = @ + 1]
            /\ pc' = [pc EXCEPT ![t] = "resolving"]
            /\ slotCalls' = [slotCalls EXCEPT ![s] = @ + 1]
            /\ slotStale' = [slotStale EXCEPT ![s] = @ \/ r # NoResult]
            /\ ret' = ret
    /\ UNCHANGED <<size, lru, lruOwner, slotVal, key, entry>>
    /\ UNCHANGED started
    /\ UNCHANGED <<connectVars, readerVars, routeVars, handlerVars, watchVars, codecVars, chanVars, streamVars>>

\* resolve_no_cache returns; the result is cached and the slot's guard
\* dropped (lines 58-65).
Fill(t, answer) ==
    /\ pc[t] = "resolving"
    /\ LET s == entry[t]
           r == ResolveResult_new(answer)
       IN
        /\ slotVal' = [slotVal EXCEPT ![s] = r]
        /\ ret' = [ret EXCEPT ![t] = result(r)]
        /\ slotOwner' = [slotOwner EXCEPT ![s] = 0]
    /\ pc' = [pc EXCEPT ![t] = "done"]
    /\ UNCHANGED <<size, lru, lruOwner, key, entry, found, tcalls>>
    /\ UNCHANGED slotGhost
    /\ UNCHANGED started
    /\ UNCHANGED <<connectVars, readerVars, routeVars, handlerVars, watchVars, codecVars, chanVars, streamVars>>

\* resolve_no_cache returns on a cache built with size 0 (line 38).
NoCacheReturn(t, answer) ==
    /\ pc[t] = "no_cache"
    /\ ret' = [ret EXCEPT ![t] = result(ResolveResult_new(answer))]
    /\ pc' = [pc EXCEPT ![t] = "done"]
    /\ UNCHANGED <<size, lru, lruOwner, slotVal, slotOwner, key, entry, found, tcalls>>
    /\ UNCHANGED slotGhost
    /\ UNCHANGED started
    /\ UNCHANGED <<connectVars, readerVars, routeVars, handlerVars, watchVars, codecVars, chanVars, streamVars>>

\* The caller takes the returned addresses: the call's locals, its Arc clone
\* among them, are dropped, and the task is free for its next call.
Return(t) ==
    /\ pc[t] = "done"
    /\ pc' = [pc EXCEPT ![t] = "idle"]
    /\ key' = [key EXCEPT ![t] = ""]
    /\ ret' = [ret EXCEPT ![t] = <<>>]
    /\ found' = [found EXCEPT ![t] = "none"]
    /\ tcalls' = [tcalls EXCEPT ![t] = 0]
    /\ \E e \in {[entry EXCEPT ![t] = 0]} :
       \E live \in {Live(lru, e)} :
        /\ entry' = e
        /\ slotVal' = ArcDrop(slotVal, live, NoResult)
        /\ slotCalls' = ArcDrop(slotCalls, live, 0)
        /\ slotStale' = ArcDrop(slotStale, live, FALSE)
    /\ UNCHANGED <<size, lru, lruOwner, slotOwner>>
    /\ UNCHANGED started
    /\ UNCHANGED <<connectVars, readerVars, routeVars, handlerVars, watchVars, codecVars, chanVars, streamVars>>

\* Time passes: every cached_at moves one tick into the past.
Older(r) ==
    IF r = NoResult \/ r.cached_at = Oldest THEN r
    ELSE [r EXCEPT !.cached_at = @ - 1]

Tick ==
    /\ slotVal' = [s \in Slots |-> Older(slotVal[s])]
    /\ slotVal' # slotVal
    /\ UNCHANGED <<size, lru, lruOwner, slotOwner, pc, key, entry, ret, found, tcalls, started>>
    /\ UNCHANGED slotGhost
    /\ UNCHANGED <<connectVars, readerVars, routeVars, handlerVars, watchVars, codecVars, chanVars, streamVars>>

\* The slot's guard surviving the drop of the future.
SlotGuardLeaked(t) == t

\* Dropping the future of Cache::resolve drops its locals: the slot's guard
\* (line 47) releases the slot's Mutex.
SlotGuardOnDrop(t) == 0

\* The task is cancelled at an await of Cache::resolve that follows the lookup
\* (lines 47 and 58; line 38 without an LruCache): the future is dropped with
\* its locals, the Arc clone and the slot's guard if it is held; nothing is
\* assigned to the slot.
Cancel(t) ==
    /\ pc[t] \in {"slot_lock", "resolving", "no_cache"}
    /\ pc' = [pc EXCEPT ![t] = "idle"]
    /\ found' = [found EXCEPT ![t] = "cancelled"]
    /\ ret' = [ret EXCEPT ![t] = <<>>]
    /\ tcalls' = [tcalls EXCEPT ![t] = 0]
    /\ \E e \in {[entry EXCEPT ![t] = 0]} :
       \E live \in {Live(lru, e)} :
       \E owners \in {IF pc[t] = "resolving"
                      THEN [slotOwner EXCEPT ![entry[t]] = SlotGuardOnDrop(t)]
                      ELSE slotOwner} :
        /\ entry' = e
        /\ slotVal' = ArcDrop(slotVal, live, NoResult)
        /\ slotOwner' = ArcDrop(owners, live, 0)
        /\ slotCalls' = ArcDrop(slotCalls, live, 0)
        /\ slotStale' = ArcDrop(slotStale, live, FALSE)
    /\ UNCHANGED <<size, lru, lruOwner, key>>
    /\ UNCHANGED started
    /\ UNCHANGED <<connectVars, readerVars, routeVars, handlerVars, watchVars, codecVars, chanVars, streamVars>>

\* Cache::resolve with tasks that may be cancelled.
CacheCancelNext ==
    \/ \E t \in Tasks, k \in Keys : Call(t, k)
    \/ \E t \in Tasks : GetOrInsert(t)
    \/ \E t \in Tasks : LockSlot(t)
    \/ \E t \in Tasks, a \in ResolverAnswers : Fill(t, a)
    \/ \E t \in Tasks, a \in ResolverAnswers : NoCacheReturn(t, a)
    \/ \E t \in Tasks : Return(t)
    \/ \E t \in Tasks : Cancel(t)
    \/ Tick

CacheNext ==
    \/ \E t \in Tasks, k \in Keys : Call(t, k)
    \/ \E t \in Tasks : GetOrInsert(t)
    \/ \E t \in Tasks : LockSlot(t)
    \/ \E t \in Tasks, a \in ResolverAnswers : Fill(t, a)
    \/ \E t \in Tasks, a \in ResolverAnswers : NoCacheReturn(t, a)
    \/ \E t \in Tasks : Return(t)
    \/ Tick

-----------------------------------------------------------------------------
(* Backend::connect and the handler's match on its result: src/main.rs     *)

Addrs == 1..MaxAddrs

\* The address lists a resolver answers: the addresses of a set, ascending.
RECURSIVE Ascending(_)
Ascending(S) ==
    IF S = {} THEN <<>>
    ELSE LET m == CHOOSE x \in S : \A y \in S : x <= y
         IN  <<m>> \o Ascending(S \ {m})

\* What ctx().resolve answers from: a Failed entry, or an Ok entry with a list.
ResolveResults ==
    {ResolveResult_new([ok |-> FALSE, v |-> <<>>])}
        \cup {ResolveResult_new([ok |-> TRUE, v |-> Ascending(S)]) : S \in SUBSET Addrs}

\* fastrand::shuffle: any permutation of the list.
Shuffles(l) ==
    {[i \in 1..Len(l) |-> l[p[i]]] :
        p \in {q \in [1..Len(l) -> 1..Len(l)] : \A i, j \in 1..Len(l) : q[i] = q[j] => i = j}}

\* http1/status.rs
SERVICE_UNAVAILABLE == "503 Service Unavailable"
BAD_GATEWAY == "502 Bad Gateway"

\* The handler answering 502 for both errors.
reply_always_502(err) == BAD_GATEWAY

\* The handler's match arms for Err(BackendError) (main.rs lines 407-408).
reply_for(err) ==
    IF err = "LookupFailed" THEN SERVICE_UNAVAILABLE ELSE BAD_GATEWAY

ConnectStart ==
    /\ backends = <<>>
    /\ shuffled = <<>>
    /\ backend_addr = 0
    /\ connect_result = ""
    /\ reply = ""

ConnectInit ==
    /\ secure_backends \in BOOLEAN
    /\ resolved \in ResolveResults
    /\ reachable \in SUBSET Addrs
    /\ tls_ok \in BOOLEAN
    /\ cpc = "resolve"
    /\ ConnectStart

\* No connection under way.
ConnectIdle ==
    /\ secure_backends = FALSE
    /\ resolved = ResolveResult_new([ok |-> FALSE, v |-> <<>>])
    /\ reachable = {}
    /\ tls_ok = FALSE
    /\ cpc = "idle"
    /\ ConnectStart

\* ctx().resolve(endpoint).await and the is_empty checks (lines 447-455)
connect_resolve ==
    /\ cpc = "resolve"
    /\ backends' = result(resolved)
    /\ IF result(resolved) = <<>>
       THEN /\ connect_result' = "LookupFailed"
            /\ cpc' = "match"
       ELSE /\ connect_result' = connect_result
            /\ cpc' = "shuffle"
    /\ UNCHANGED <<secure_backends, resolved, reachable, tls_ok, shuffled, backend_addr, reply>>
    /\ UNCHANGED <<cacheVars, readerVars, routeVars, handlerVars, watchVars, codecVars, chanVars, streamVars>>

\* fastrand::shuffle(&mut backends) (line 457)
connect_shuffle ==
    /\ cpc = "shuffle"
    /\ \E l \in Shuffles(backends) :
        /\ backends' = l
        /\ shuffled' = l
    /\ cpc' = "dial"
    /\ UNCHANGED <<secure_backends, resolved, reachable, tls_ok, backend_addr, connect_result, reply>>
    /\ UNCHANGED <<cacheVars, readerVars, routeVars, handlerVars, watchVars, codecVars, chanVars, streamVars>>

\* One turn of the loop over the addresses (lines 461-475): the iterator
\* is exhausted, or the next address is tried.
connect_dial ==
    /\ cpc = "dial"
    /\ IF backends = <<>>
       THEN /\ connect_result' = "ConnectFailed"
            /\ cpc' = "match"
            /\ UNCHANGED <<backends, backend_addr>>
       ELSE /\ backends' = Tail(backends)
            /\ IF Head(backends) \in reachable
               THEN /\ backend_addr' = Head(backends)
                    /\ IF secure_backends
                       THEN /\ cpc' = "tls"
                            /\ connect_result' = connect_result
                       ELSE /\ cpc' = "match"
                            /\ connect_result' = "Ok"
               ELSE /\ cpc' = "dial"
                    /\ UNCHANGED <<backend_addr, connect_result>>
    /\ UNCHANGED <<secure_backends, resolved, reachable, tls_ok, shuffled, reply>>
    /\ UNCHANGED <<cacheVars, readerVars, routeVars, handlerVars, watchVars, codecVars, chanVars, streamVars>>

\* connect_tls(backend, &endpoint, alpn_protos).await (lines 477-486)
connect_tls ==
    /\ cpc = "tls"
    /\ connect_result' = IF tls_ok THEN "Ok" ELSE "ConnectFailed"
    /\ cpc' = "match"
    /\ UNCHANGED <<secure_backends, resolved, reachable, tls_ok, backends, shuffled, backend_addr, reply>>
    /\ UNCHANGED <<cacheVars, readerVars, routeVars, handlerVars, watchVars, codecVars, chanVars, streamVars>>

\* handle_http1_connection's match on Backend::connect (lines 402-409):
\* reply! writes the status and returns from the handler.
handler_match ==
    /\ cpc = "match"
    /\ IF connect_result = "Ok"
       THEN /\ cpc' = "forward"
            /\ reply' = reply
       ELSE /\ cpc' = "returned"
            /\ reply' = reply_for(connect_result)
    /\ UNCHANGED <<secure_backends, resolved, reachable, tls_ok, backends, shuffled, backend_addr, connect_result>>
    /\ UNCHANGED <<cacheVars, readerVars, routeVars, handlerVars, watchVars, codecVars, chanVars, streamVars>>

ConnectNext ==
    \/ connect_resolve
    \/ connect_shuffle
    \/ connect_dial
    \/ connect_tls
    \/ handler_match

-----------------------------------------------------------------------------
(* The HTTP/1 reader's framing computation: src/http1.rs                   *)
(* Byte strings are sequences of byte values.                              *)

b_GET == <<71, 69, 84>>  \* "GET"
b_OPTIONS == <<79, 80, 84, 73, 79, 78, 83>>  \* "OPTIONS"
b_HEAD == <<72, 69, 65, 68>>  \* "HEAD"
b_DELETE == <<68, 69, 76, 69, 84, 69>>  \* "DELETE"
b_CONNECT == <<67, 79, 78, 78, 69, 67, 84>>  \* "CONNECT"
b_TRACE == <<84, 82, 65, 67, 69>>  \* "TRACE"

\* METHODS_WITHOUT_BODY
METHODS_WITHOUT_BODY == <<b_GET, b_OPTIONS, b_HEAD, b_DELETE, b_CONNECT, b_TRACE>>

b_Content_Length == <<67, 111, 110, 116, 101, 110, 116, 45, 76, 101, 110, 103, 116, 104>>  \* "Content-Length"
b_Transfer_Encoding == <<84, 114, 97, 110, 115, 102, 101, 114, 45, 69, 110, 99, 111, 100, 105, 110, 103>>  \* "Transfer-Encoding"
b_Connection == <<67, 111, 110, 110, 101, 99, 116, 105, 111, 110>>  \* "Connection"
b_chunked == <<99, 104, 117, 110, 107, 101, 100>>  \* "chunked"
b_close == <<99, 108, 111, 115, 101>>  \* "close"

\* The methods, status codes and headers the reader is fed.
RequestMethods ==
    { b_GET, b_OPTIONS, b_HEAD, b_DELETE, b_CONNECT, b_TRACE,
      <<103, 101, 116>>,            \* "get"
      <<84, 114, 97, 99, 101>>,  \* "Trace"
      <<80, 79, 83, 84>>,        \* "POST"
      <<112, 111, 115, 116>>,    \* "post"
      <<80, 85, 84>>,            \* "PUT"
      <<71, 69, 84, 83>>,        \* "GETS"
      <<72, 69, 65>> }           \* "HEA"

StatusCodes == {0, 99, 100, 101, 102, 199, 200, 204, 205, 304, 404, 65535}

HeaderNames ==
    { b_Content_Length, b_Transfer_Encoding, b_Connection,
      <<99, 111, 110, 116, 101, 110, 116, 45, 108, 101, 110, 103, 116, 104>>,  \* "content-length"
      <<84, 82, 65, 78, 83, 70, 69, 82, 45, 69, 78, 67, 79, 68, 73, 78, 71>>,  \* "TRANSFER-ENCODING"
      <<99, 111, 110, 110, 101, 99, 116, 105, 111, 110>>,  \* "connection"
      <<72, 111, 115, 116>> }  \* "Host"

HeaderValues ==
    { b_chunked, b_close,
      <<48>>,                  \* "0"
      <<53>>,                  \* "5"
      <<120>>,                 \* "x"
      <<67, 104, 117, 110, 107, 101, 100>>,   \* "Chunked"
      <<103, 122, 105, 112>>,   \* "gzip"
      <<67, 76, 79, 83, 69>>,      \* "CLOSE"
      <<107, 101, 101, 112, 45, 97, 108, 105, 118, 101>> }  \* "keep-alive"

\* u8::to_ascii_lowercase
to_ascii_lowercase(b) == IF b \in 65..90 THEN b + 32 ELSE b

\* <[u8]>::eq_ignore_ascii_case
eq_ignore_ascii_case(a, b) ==
    /\ Len(a) = Len(b)
    /\ \A i \in 1..Len(a) : to_ascii_lowercase(a[i]) = to_ascii_lowercase(b[i])

\* str::parse::<u64>: decimal digits after an optional '+'; None for anything else.
\* (HeaderValues holds no number near u64::MAX, so the overflow error never arises.)
RECURSIVE Digits(_)
Digits(v) ==
    IF v = <<>> THEN 0 ELSE 10 * Digits(SubSeq(v, 1, Len(v) - 1)) + (v[Len(v)] - 48)

parse_u64(v) ==
    LET d == IF v # <<>> /\ v[1] = 43 THEN Tail(v) ELSE v IN
    IF d # <<>> /\ (\A i \in 1..Len(d) : d[i] \in 48..57)
    THEN Some(Digits(d))
    ELSE None

\* HeaderSummary::new
HeaderSummary_new ==
    [content_length |-> None, transfer_encoding_is_chunked |-> FALSE, connection_is_close |-> FALSE]

\* HeaderSummary::process_header: the summary after the header, or the error.
process_header(sum, name, value) ==
    IF eq_ignore_ascii_case(name, b_Content_Length)
    THEN IF parse_u64(value) = None
         THEN [err |-> "InvalidInput", summary |-> sum]
         ELSE [err |-> "", summary |-> [sum EXCEPT !.content_length = parse_u64(value)]]
    ELSE IF eq_ignore_ascii_case(name, b_Transfer_Encoding)
    THEN [err |-> "", summary |->
            [sum EXCEPT !.transfer_encoding_is_chunked = eq_ignore_ascii_case(value, b_chunked)]]
    ELSE IF eq_ignore_ascii_case(name, b_Connection)
    THEN [err |-> "", summary |->
            [sum EXCEPT !.connection_is_close = eq_ignore_ascii_case(value, b_close)]]
    ELSE [err |-> "", summary |-> sum]

\* request_length comparing the method byte for byte.
request_length_exact_case(sum, method) ==
    IF sum.transfer_encoding_is_chunked THEN None
    ELSE IF sum.content_length # None THEN sum.content_length
    ELSE IF \E i \in 1..Len(METHODS_WITHOUT_BODY) : method = METHODS_WITHOUT_BODY[i]
    THEN Some(0)
    ELSE IF sum.connection_is_close THEN None
    ELSE Some(0)

\* HeaderSummary::request_length
request_length(sum, method) ==
    IF sum.transfer_encoding_is_chunked THEN None
    ELSE IF sum.content_length # None THEN sum.content_length
    ELSE IF \E i \in 1..Len(METHODS_WITHOUT_BODY) :
                eq_ignore_ascii_case(method, METHODS_WITHOUT_BODY[i])
    THEN Some(0)
    ELSE IF sum.connection_is_close THEN None
    ELSE Some(0)

\* resp_length looking at the headers before the status code.
response_length_headers_first(sum, status_code) ==
    IF sum.transfer_encoding_is_chunked THEN None
    ELSE IF sum.content_length # None THEN sum.content_length
    ELSE IF status_code = 101 THEN None
    ELSE IF status_code \in 100..199 \/ status_code = 204 \/ status_code = 304 THEN Some(0)
    ELSE None

\* HeaderSummary::resp_length
response_length(sum, status_code) ==
    IF status_code = 101 THEN None
    ELSE IF status_code \in 100..199 \/ status_code = 204 \/ status_code = 304 THEN Some(0)
    ELSE IF sum.transfer_encoding_is_chunked THEN None
    ELSE sum.content_length

\* Reader::content_length
content_length ==
    IF kind.tag = "Request" THEN request_length(summary, kind.method)
    ELSE IF kind.tag = "Response" THEN response_length(summary, kind.status_code)
    ELSE None

\* The headers of a header block summed up with one header more, whichever
\* call consumed its value; the first Content-Length that is not a u64 stays.
sum_up(w, name, value) ==
    IF w.err # "" THEN w ELSE process_header(w.summary, name, value)

\* Reader::new
ReaderNew ==
    /\ kind = [tag |-> "None"]
    /\ summary = HeaderSummary_new
    /\ nheaders = 0
    /\ body_length = None
    /\ on_wire = [err |-> "", summary |-> HeaderSummary_new]

ReaderInit == ReaderNew /\ hpc = "line"

\* No reader.
ReaderIdle == ReaderNew /\ hpc = "idle"

\* Reader::request_line: the line's first field is kept as the method.
request_line(method) ==
    /\ hpc = "line"
    /\ kind' = [tag |-> "Request", method |-> method]
    /\ hpc' = "headers"
    /\ UNCHANGED <<summary, nheaders, body_length, on_wire>>
    /\ UNCHANGED <<cacheVars, connectVars, routeVars, handlerVars, watchVars, codecVars, chanVars, streamVars>>

\* Reader::status_line: the line's second field, parsed, is kept as the status code.
status_line(status_code) ==
    /\ hpc = "line"
    /\ kind' = [tag |-> "Response", status_code |-> status_code]
    /\ hpc' = "headers"
    /\ UNCHANGED <<summary, nheaders, body_length, on_wire>>
    /\ UNCHANGED <<cacheVars, connectVars, routeVars, handlerVars, watchVars, codecVars, chanVars, streamVars>>

\* Reader::header_name returning a name, then Reader::header_value.
header_value(name, value) ==
    /\ hpc = "headers"
    /\ nheaders < MaxHeaders
    /\ nheaders' = nheaders + 1
    /\ summary' = process_header(summary, name, value).summary
    /\ hpc' = IF process_header(summary, name, value).err = "" THEN "headers" ELSE "error"
    /\ on_wire' = sum_up(on_wire, name, value)
    /\ UNCHANGED <<kind, body_length>>
    /\ UNCHANGED <<cacheVars, connectVars, routeVars, handlerVars, watchVars, codecVars, chanVars, streamVars>>

\* Reader::header_name returning a name, then Reader::skip_header_value on
\* the header's value.
skip_header_value(name, value) ==
    /\ hpc = "headers"
    /\ nheaders < MaxHeaders
    /\ nheaders' = nheaders + 1
    /\ on_wire' = sum_up(on_wire, name, value)
    /\ UNCHANGED <<kind, summary, hpc, body_length>>
    /\ UNCHANGED <<cacheVars, connectVars, routeVars, handlerVars, watchVars, codecVars, chanVars, streamVars>>

\* Reader::header_name returning EndOfHeader; the caller asks content_length().
end_of_header ==
    /\ hpc = "headers"
    /\ hpc' = "body"
    /\ body_length' = content_length
    /\ UNCHANGED <<kind, summary, nheaders, on_wire>>
    /\ UNCHANGED <<cacheVars, connectVars, routeVars, handlerVars, watchVars, codecVars, chanVars, streamVars>>

ReaderNext ==
    \/ \E m \in RequestMethods : request_line(m)
    \/ \E c \in StatusCodes : status_line(c)
    \/ \E n \in HeaderNames, v \in HeaderValues : header_value(n, v)
    \/ \E n \in HeaderNames, v \in HeaderValues : skip_header_value(n, v)
    \/ end_of_header

-----------------------------------------------------------------------------
(* Routing of a request path inside one host: src/lib.rs HostConfig,        *)
(* src/main.rs handle_http1_connection                                      *)

\* The bytes request paths are made of: '/', 'a' and '?'.
PathBytes == {47, 97, 63}

Paths == UNION { [1..n -> PathBytes] : n \in 0..MaxPathLen }

\* The keys a host's maps may hold.
ExactKeys == { <<47>>, <<47, 97>>, <<47, 97, 63>> }  \* "/", "/a", "/a?"

PrefixKeys == { <<>>, <<47>>, <<47, 97>>, <<47, 97, 97>>, <<97>> }  \* "", "/", "/a", "/aa", "a"

\* An Endpoint value, told apart by the map and the key it was stored under.
EndpointOf(map, k) == <<map, k>>

HostConfigs ==
    { [exact_matches |-> [k \in ek |-> EndpointOf("exact", k)],
       prefix_matches |-> [k \in pk |-> EndpointOf("prefix", k)],
       any_match |-> any] :
         ek \in SUBSET ExactKeys, pk \in SUBSET PrefixKeys,
         any \in {None, Some(EndpointOf("any", <<>>))} }

\* HostConfig::default
HostConfig_default ==
    [exact_matches |-> [k \in {} |-> None], prefix_matches |-> [k \in {} |-> None],
     any_match |-> None]

\* str::starts_with
starts_with(path, k) == Len(k) <= Len(path) /\ SubSeq(path, 1, Len(k)) = k

\* Ord for String: byte-wise lexicographic order.
str_lt(a, b) ==
    \E i \in 1..(Len(b)) :
        /\ i <= Len(a) + 1
        /\ SubSeq(a, 1, i - 1) = SubSeq(b, 1, i - 1)
        /\ i = Len(a) + 1 \/ a[i] < b[i]

First(keys) == CHOOSE k \in keys : \A o \in keys : o = k \/ str_lt(k, o)

Last(keys) == CHOOSE k \in keys : \A o \in keys : o = k \/ str_lt(o, k)

\* prefix_matches.iter().find_map(..): the map walked in ascending key order.
RECURSIVE iter_find_map(_, _, _)
iter_find_map(m, keys, path) ==
    IF keys = {} THEN None
    ELSE IF starts_with(path, First(keys)) THEN Some(m[First(keys)])
    ELSE iter_find_map(m, keys \ {First(keys)}, path)

\* prefix_matches.iter().rev().find_map(..): the map walked in descending key order.
RECURSIVE iter_rev_find_map(_, _, _)
iter_rev_find_map(m, keys, path) ==
    IF keys = {} THEN None
    ELSE IF starts_with(path, Last(keys)) THEN Some(m[Last(keys)])
    ELSE iter_rev_find_map(m, keys \ {Last(keys)}, path)

\* HostConfig::endpoint_for
endpoint_for(cfg, path) ==
    IF path \in DOMAIN cfg.exact_matches THEN Some(cfg.exact_matches[path])
    ELSE IF iter_rev_find_map(cfg.prefix_matches, DOMAIN cfg.prefix_matches, path) # None
    THEN iter_rev_find_map(cfg.prefix_matches, DOMAIN cfg.prefix_matches, path)
    ELSE cfg.any_match

\* full_req_path.find('?'): the index of the first '?', 0 when there is none.
find_qmark(p) ==
    IF \E i \in 1..Len(p) : p[i] = 63
    THEN CHOOSE i \in 1..Len(p) : p[i] = 63 /\ \A j \in 1..(i - 1) : p[j] # 63
    ELSE 0

\* req_path in handle_http1_connection
req_path(p) == IF find_qmark(p) = 0 THEN p ELSE SubSeq(p, 1, find_qmark(p) - 1)

RouteNew ==
    /\ full_req_path = <<>>
    /\ host_known = FALSE
    /\ endpoint = None
    /\ route_reply = ""

\* A connection accepted, the host's configuration as published.
RouteInit == RouteNew /\ host_cfg \in HostConfigs /\ rpc = "accepted"

\* No connection.
RouteIdle == RouteNew /\ host_cfg = HostConfig_default /\ rpc = "idle"

\* handle_http1_connection from the request line to the mapped endpoint.
route_request(path, known) ==
    /\ rpc = "accepted"
    /\ full_req_path' = path
    /\ host_known' = known
    /\ IF ~known
       THEN /\ route_reply' = "404 Not Found"
            /\ endpoint' = None
            /\ rpc' = "replied"
       ELSE IF endpoint_for(host_cfg, req_path(path)) = None
       THEN /\ route_reply' = SERVICE_UNAVAILABLE
            /\ endpoint' = None
            /\ rpc' = "replied"
       ELSE /\ route_reply' = ""
            /\ endpoint' = endpoint_for(host_cfg, req_path(path))
            /\ rpc' = "mapped"
    /\ UNCHANGED host_cfg
    /\ UNCHANGED <<cacheVars, connectVars, readerVars, handlerVars, watchVars, codecVars, chanVars, streamVars>>

RouteNext == \E path \in Paths, known \in BOOLEAN : route_request(path, known)

-----------------------------------------------------------------------------
(* http1::Ranger and the line readers of http1::Reader: src/http1.rs.       *)
(* A reader call is given the bytes s the peer sends from the call's first  *)
(* byte on; after them the peer is silent and closes (end of file).         *)

Least(I) == CHOOSE i \in I : \A j \in I : i <= j

\* The index of the first byte of s at or after from that is in bytes, 0 if none.
FirstOf(s, from, bytes) ==
    LET I == {i \in from..Len(s) : s[i] \in bytes}
    IN  IF I = {} THEN 0 ELSE Least(I)

\* The index of the first byte of s at or after from that is not in bytes, 0 if none.
FirstNotOf(s, from, bytes) ==
    LET I == {i \in from..Len(s) : s[i] \notin bytes}
    IN  IF I = {} THEN 0 ELSE Least(I)

\* Ranger::new
Ranger_new == [count |-> 0, err |-> "", from |-> 1, to |-> 0]

\* Ranger::read and Ranger::peek running out of bytes: the limit is checked
\* first, the end of file second.
Ranger_stopped(s, limit) == IF Len(s) >= limit THEN "LimitReached" ELSE "InvalidInput"

\* Ranger::range_to(sep): reads through the first sep; a CR or LF met before
\* it is invalid. The range is what was read, without the separator.
Ranger_range_to(s, limit, sep, st) ==
    IF st.err # "" THEN st
    ELSE LET i == FirstOf(s, st.count + 1, {sep, 13, 10})
         IN  IF i = 0 THEN [st EXCEPT !.err = Ranger_stopped(s, limit)]
             ELSE IF i > limit THEN [st EXCEPT !.err = "LimitReached"]
             ELSE IF s[i] # sep THEN [st EXCEPT !.err = "InvalidInput"]
             ELSE [count |-> i, err |-> "", from |-> st.count + 1, to |-> i - 1]

\* skip_sp that skips nothing.
Ranger_skip_sp_none(s, limit, st) == st

\* Ranger::skip_sp: reads the spaces and tabs that follow, peeking each time.
Ranger_skip_sp(s, limit, st) ==
    IF st.err # "" THEN st
    ELSE LET j == FirstNotOf(s, st.count + 1, {32, 9})
         IN  IF j = 0 THEN [st EXCEPT !.err = Ranger_stopped(s, limit)]
             ELSE IF j > limit THEN [st EXCEPT !.err = "LimitReached"]
             ELSE [st EXCEPT !.count = j - 1]

\* Ranger::range_to_and_skip_sp
Ranger_range_to_and_skip_sp(s, limit, sep, st) ==
    Ranger_skip_sp(s, limit, Ranger_range_to(s, limit, sep, st))

\* Ranger::expect
Ranger_expect(s, limit, expected, st) ==
    IF st.err # "" THEN st
    ELSE IF st.count = limit THEN [st EXCEPT !.err = "LimitReached"]
    ELSE IF st.count + 1 > Len(s) THEN [st EXCEPT !.err = "InvalidInput"]
    ELSE IF s[st.count + 1] # expected THEN [st EXCEPT !.err = "InvalidInput"]
    ELSE [st EXCEPT !.count = st.count + 1]

\* Reader::request_line: [err, method, path, proto, raw]
Reader_request_line(s, limit) ==
    LET p1 == Ranger_range_to_and_skip_sp(s, limit, 32, Ranger_new)
        p2 == Ranger_range_to_and_skip_sp(s, limit, 32, p1)
        p3 == Ranger_range_to(s, limit, 13, p2)
        nl == Ranger_expect(s, limit, 10, p3)
    IN  IF nl.err # ""
        THEN [err |-> nl.err, method |-> <<>>, path |-> <<>>, proto |-> <<>>, raw |-> <<>>]
        ELSE [err |-> "",
              method |-> SubSeq(s, p1.from, p1.to),
              path |-> SubSeq(s, p2.from, p2.to),
              proto |-> SubSeq(s, p3.from, p3.to),
              raw |-> SubSeq(s, 1, nl.count)]

\* The bound on a header name: the limit of header_name's Ranger.
HeaderNameLimit == 40

Min(a, b) == IF a < b THEN a ELSE b

\* Reader::ranger: the limit of a call, under the reader's overall limit.
Reader_ranger(limit, global_limit, count) ==
    IF global_limit = None THEN limit
    ELSE Min(limit, IF global_limit[1] >= count THEN global_limit[1] - count ELSE 0)

\* Reader::read_header_value's loop: reads up to the next CR, whatever the bytes.
Ranger_value(s, limit, st) ==
    IF st.err # "" THEN st
    ELSE LET i == FirstOf(s, st.count + 1, {13})
         IN  IF i = 0 THEN [st EXCEPT !.err = Ranger_stopped(s, limit)]
             ELSE IF i > limit THEN [st EXCEPT !.err = "LimitReached"]
             ELSE [count |-> i - 1, err |-> "", from |-> st.count + 1, to |-> i - 1]

\* Reader::header(limit): one header line, or the empty line that ends the
\* header: header_name followed by header_value under one limit for the line.
\* [err, end, name, value, raw]; lines folded over several lines are not fed.
Reader_header(s, limit) ==
    LET none == [err |-> "", end |-> FALSE, name |-> <<>>, value |-> <<>>, raw |-> <<>>]
        cr == Ranger_expect(s, limit, 13, Ranger_new)
        eoh == Ranger_expect(s, limit, 10, cr)
        nm == Ranger_range_to_and_skip_sp(s, Min(HeaderNameLimit, limit), 58, Ranger_new)
        val == Ranger_value(s, limit, nm)
        nl == Ranger_expect(s, limit, 10, Ranger_expect(s, limit, 13, val))
    IN  IF limit = 0 THEN [none EXCEPT !.err = "LimitReached"]
        ELSE IF s = <<>> THEN [none EXCEPT !.err = "InvalidInput"]
        ELSE IF s[1] = 13
        THEN IF eoh.err # "" THEN [none EXCEPT !.err = eoh.err]
             ELSE [none EXCEPT !.end = TRUE, !.raw = SubSeq(s, 1, eoh.count)]
        ELSE IF nm.err # "" THEN [none EXCEPT !.err = nm.err]
        ELSE IF nl.err # "" THEN [none EXCEPT !.err = nl.err]
        ELSE [err |-> "", end |-> FALSE,
              name |-> SubSeq(s, nm.from, nm.to),
              value |-> SubSeq(s, val.from, val.to),
              raw |-> SubSeq(s, 1, nl.count)]

\* Header::is
Header_is(hdr, name) == eq_ignore_ascii_case(hdr.name, name)

-----------------------------------------------------------------------------
(* handle_http1_connection: src/main.rs.                                    *)
(* What a client may send, line by line.                                    *)

\* "GET /a?x HTTP/1.1\r\n"
rl_get_a == <<71, 69, 84, 32, 47, 97, 63, 120, 32, 72, 84, 84, 80, 47, 49, 46, 49, 13, 10>>
\* "POST /b HTTP/1.1\r\n"
rl_post_b == <<80, 79, 83, 84, 32, 47, 98, 32, 72, 84, 84, 80, 47, 49, 46, 49, 13, 10>>
\* "GET / HTTP/1.1\r\n"
rl_get_root == <<71, 69, 84, 32, 47, 32, 72, 84, 84, 80, 47, 49, 46, 49, 13, 10>>
\* "GET\r\n"
rl_cr == <<71, 69, 84, 13, 10>>
\* "GET /a"
rl_eof == <<71, 69, 84, 32, 47, 97>>
\* "GET /\xff HTTP/1.1\r\n"
rl_utf8 == <<71, 69, 84, 32, 47, 255, 32, 72, 84, 84, 80, 47, 49, 46, 49, 13, 10>>
\* "GET /aaa...a HTTP/1.1\r\n", 8193 bytes
rl_long ==
    <<71, 69, 84, 32, 47>> \o [i \in 1..8177 |-> 97] \o <<32, 72, 84, 84, 80, 47, 49, 46, 49, 13, 10>>
\* "GET /aaa...a HTTP/1.1\r\n", 8192 bytes
rl_full ==
    <<71, 69, 84, 32, 47>> \o [i \in 1..8176 |-> 97] \o <<32, 72, 84, 84, 80, 47, 49, 46, 49, 13, 10>>

RequestLines == {rl_get_a, rl_post_b, rl_get_root, rl_cr, rl_eof, rl_utf8, rl_long, rl_full}

\* "Host: a.b\r\n"
hl_host_ab == <<72, 111, 115, 116, 58, 32, 97, 46, 98, 13, 10>>
\* "hOST: \tR:80 \r\n"
hl_host_r == <<104, 79, 83, 84, 58, 32, 9, 82, 58, 56, 48, 32, 13, 10>>
\* "Host: zz\r\n"
hl_host_zz == <<72, 111, 115, 116, 58, 32, 122, 122, 13, 10>>
\* "Accept: x\r\n"
hl_accept == <<65, 99, 99, 101, 112, 116, 58, 32, 120, 13, 10>>
\* "\r\n"
hl_end == <<13, 10>>
\* "Host\r\n"
hl_nocolon == <<72, 111, 115, 116, 13, 10>>
\* "Host: \xff\r\n"
hl_host_utf8 == <<72, 111, 115, 116, 58, 32, 255, 13, 10>>
\* "Host: aaa...a\r\n", 513 bytes
hl_host_long ==
    <<72, 111, 115, 116, 58, 32>> \o [i \in 1..505 |-> 97] \o <<13, 10>>

FirstHeaders ==
    {hl_host_ab, hl_host_r, hl_host_zz, hl_accept, hl_end, hl_nocolon, hl_host_utf8, hl_host_long}

\* "Forwarded: for=x\r\n"
hl_forwarded == <<70, 111, 114, 119, 97, 114, 100, 101, 100, 58, 32, 102, 111, 114, 61, 120, 13, 10>>
\* "x-forwarded-for: 1\r\n"
hl_xff == <<120, 45, 102, 111, 114, 119, 97, 114, 100, 101, 100, 45, 102, 111, 114, 58, 32, 49, 13, 10>>
\* "X-FORWARDED-PROTO: h\r\n"
hl_xfp == <<88, 45, 70, 79, 82, 87, 65, 82, 68, 69, 68, 45, 80, 82, 79, 84, 79, 58, 32, 104, 13, 10>>
\* "X-Forwarded-Host: e\r\n"
hl_xfh == <<88, 45, 70, 111, 114, 119, 97, 114, 100, 101, 100, 45, 72, 111, 115, 116, 58, 32, 101, 13, 10>>
\* "X-Forwarded-Hosts: e\r\n"
hl_xfhs == <<88, 45, 70, 111, 114, 119, 97, 114, 100, 101, 100, 45, 72, 111, 115, 116, 115, 58, 32, 101, 13, 10>>
\* "Content-Length: 3\r\n"
hl_cl3 == <<67, 111, 110, 116, 101, 110, 116, 45, 76, 101, 110, 103, 116, 104, 58, 32, 51, 13, 10>>
\* "Content-Length: x\r\n"
hl_clx == <<67, 111, 110, 116, 101, 110, 116, 45, 76, 101, 110, 103, 116, 104, 58, 32, 120, 13, 10>>
\* "Connection: close\r\n"
hl_close == <<67, 111, 110, 110, 101, 99, 116, 105, 111, 110, 58, 32, 99, 108, 111, 115, 101, 13, 10>>
\* "Transfer-Encoding: chunked\r\n"
hl_chunked == <<84, 114, 97, 110, 115, 102, 101, 114, 45, 69, 110, 99, 111, 100, 105, 110, 103, 58, 32, 99, 104, 117, 110, 107, 101, 100, 13, 10>>
\* "A: aaa...a\r\n", 4097 bytes
hl_long ==
    <<65, 58, 32>> \o [i \in 1..4092 |-> 97] \o <<13, 10>>

LaterHeaders ==
    {hl_forwarded, hl_xff, hl_xfp, hl_xfh, hl_xfhs, hl_accept, hl_cl3, hl_clx, hl_close,
     hl_chunked, hl_long, hl_nocolon, hl_end}

\* "host"
b_host == <<104, 111, 115, 116>>
\* "Forwarded"
b_Forwarded == <<70, 111, 114, 119, 97, 114, 100, 101, 100>>
\* "X-Forwarded-For"
b_X_Forwarded_For == <<88, 45, 70, 111, 114, 119, 97, 114, 100, 101, 100, 45, 70, 111, 114>>
\* "X-Forwarded-Proto"
b_X_Forwarded_Proto == <<88, 45, 70, 111, 114, 119, 97, 114, 100, 101, 100, 45, 80, 114, 111, 116, 111>>
\* "X-Forwarded-Host"
b_X_Forwarded_Host == <<88, 45, 70, 111, 114, 119, 97, 114, 100, 101, 100, 45, 72, 111, 115, 116>>
\* "http"
b_http == <<104, 116, 116, 112>>
\* "https"
b_https == <<104, 116, 116, 112, 115>>
\* The client's address, as SocketAddr prints it.
\* "1.2.3.4:5"
remote == <<49, 46, 50, 46, 51, 46, 52, 58, 53>>

-----------------------------------------------------------------------------
(* http1::Writer and http1::response: src/http1.rs, src/http1/response.rs   *)

\* "\r\n"
b_crlf == <<13, 10>>
\* ": "
b_colon_sp == <<58, 32>>
\* "HTTP/1.1 "
b_http11 == <<72, 84, 84, 80, 47, 49, 46, 49, 32>>
\* "Content-Type"
b_Content_Type == <<67, 111, 110, 116, 101, 110, 116, 45, 84, 121, 112, 101>>
\* "text/plain"
b_text_plain == <<116, 101, 120, 116, 47, 112, 108, 97, 105, 110>>
\* "text/html"
b_text_html == <<116, 101, 120, 116, 47, 104, 116, 109, 108>>
\* "Location"
b_Location == <<76, 111, 99, 97, 116, 105, 111, 110>>
\* "HTTP/1.1 301 Moved Permanently\r\n"
b_301_line == <<72, 84, 84, 80, 47, 49, 46, 49, 32, 51, 48, 49, 32, 77, 111, 118, 101, 100, 32, 80, 101, 114, 109, 97, 110, 101, 110, 116, 108, 121, 13, 10>>
\* "<a href=""
b_a_href == <<60, 97, 32, 104, 114, 101, 102, 61, 34>>
\* "">Moved Permanently</a>.\n"
b_moved == <<34, 62, 77, 111, 118, 101, 100, 32, 80, 101, 114, 109, 97, 110, 101, 110, 116, 108, 121, 60, 47, 97, 62, 46, 10>>
\* "400 Bad Request"
s_400 == <<52, 48, 48, 32, 66, 97, 100, 32, 82, 101, 113, 117, 101, 115, 116>>
\* "404 Not Found"
s_404 == <<52, 48, 52, 32, 78, 111, 116, 32, 70, 111, 117, 110, 100>>
\* "413 Content Too Large"
s_413 == <<52, 49, 51, 32, 67, 111, 110, 116, 101, 110, 116, 32, 84, 111, 111, 32, 76, 97, 114, 103, 101>>
\* "414 URI Too Long"
s_414 == <<52, 49, 52, 32, 85, 82, 73, 32, 84, 111, 111, 32, 76, 111, 110, 103>>
\* "502 Bad Gateway"
s_502 == <<53, 48, 50, 32, 66, 97, 100, 32, 71, 97, 116, 101, 119, 97, 121>>
\* "503 Service Unavailable"
s_503 == <<53, 48, 51, 32, 83, 101, 114, 118, 105, 99, 101, 32, 85, 110, 97, 118, 97, 105, 108, 97, 98, 108, 101>>
\* "invalid input"
m_invalid_input == <<105, 110, 118, 97, 108, 105, 100, 32, 105, 110, 112, 117, 116>>
\* "invalid path"
m_invalid_path == <<105, 110, 118, 97, 108, 105, 100, 32, 112, 97, 116, 104>>
\* "no Host header"
m_no_host == <<110, 111, 32, 72, 111, 115, 116, 32, 104, 101, 97, 100, 101, 114>>
\* "first header must be Host"
m_first_host == <<102, 105, 114, 115, 116, 32, 104, 101, 97, 100, 101, 114, 32, 109, 117, 115, 116, 32, 98, 101, 32, 72, 111, 115, 116>>
\* "invalid host"
m_invalid_host == <<105, 110, 118, 97, 108, 105, 100, 32, 104, 111, 115, 116>>
\* "Unknown host"
m_unknown_host == <<85, 110, 107, 110, 111, 119, 110, 32, 104, 111, 115, 116>>

\* usize::to_string
RECURSIVE to_string(_)
to_string(n) == IF n < 10 THEN <<48 + n>> ELSE to_string(n \div 10) \o <<48 + (n % 10)>>

\* Writer::new
Writer_new == <<>>

\* Writer::append
Writer_append(w, v) == w \o v

\* Writer::crlf
Writer_crlf(w) == w \o b_crlf

\* Writer::header, Writer::header_raw
Writer_header(w, name, value) == w \o name \o b_colon_sp \o value \o b_crlf

\* Writer::done
Writer_done(w) == Writer_crlf(w)

\* Writer::content_length
Writer_content_length(w, length) ==
    Writer_crlf(Writer_header(w, b_Content_Length, to_string(length)))

\* response::plain
response_plain(status, message) ==
    Writer_content_length(
        Writer_header(Writer_crlf(b_http11 \o status), b_Content_Type, b_text_plain),
        Len(message) + 1) \o message \o <<10>>

\* response::status
response_status(status) == response_plain(status, status)

\* A redirect whose Location is the bare target.
response_redirect_relative(target_url) ==
    Writer_content_length(
        Writer_header(Writer_header(b_301_line, b_Location, SubSeq(target_url, 9, Len(target_url))),
                      b_Content_Type, b_text_html),
        Len(b_a_href \o target_url \o b_moved)) \o b_a_href \o target_url \o b_moved

\* response::redirect
response_redirect(target_url) ==
    Writer_content_length(
        Writer_header(Writer_header(b_301_line, b_Location, target_url),
                      b_Content_Type, b_text_html),
        Len(b_a_href \o target_url \o b_moved)) \o b_a_href \o target_url \o b_moved

\* The status texts of reply_for as the bytes reply! is given.
as_bytes(status) == IF status = SERVICE_UNAVAILABLE THEN s_503 ELSE s_502

-----------------------------------------------------------------------------
(* handle_http1_connection: the host, the snapshot and the routed endpoints *)

MaxRequestLine == 8192
MaxHostHeader == 512
MaxHeader == 4096
ReaderLimit == 16384

\* str::from_utf8 succeeding; the bytes fed are ASCII bytes or 0xff.
is_utf8(s) == \A i \in 1..Len(s) : s[i] < 128

\* u8::is_ascii_whitespace
is_ascii_whitespace(b) == b \in {9, 10, 12, 13, 32}

\* str::trim_ascii
trim_ascii(s) ==
    LET I == {i \in 1..Len(s) : ~is_ascii_whitespace(s[i])}
    IN  IF I = {} THEN <<>>
        ELSE SubSeq(s, Least(I), CHOOSE i \in I : \A j \in I : j <= i)

\* str::to_lowercase, on ASCII
to_lowercase(s) == [i \in 1..Len(s) |-> to_ascii_lowercase(s[i])]

\* host.find(':').map_or(host, |i| &host[..i])
strip_port(s) == IF FirstOf(s, 1, {58}) = 0 THEN s ELSE SubSeq(s, 1, FirstOf(s, 1, {58}) - 1)

\* The host of a Host header value (lines 332-334).
normalize_host(value) == strip_port(to_lowercase(trim_ascii(value)))

\* An Endpoint of an ingress: ssl_redirect is read from the same annotation
\* as secure_backends.
Endpoint_of(service, secure) ==
    [service |-> service,
     opts |-> [secure_backends |-> secure, ssl_redirect |-> secure, http2 |-> FALSE]]

E1 == Endpoint_of("s1", FALSE)
E2 == Endpoint_of("s2", FALSE)
E3 == Endpoint_of("s3", TRUE)

\* A published snapshot: host "a.b" with an exact and a prefix route and no
\* any route, host "r" with an any route that redirects.
HostsFull ==
    (<<97, 46, 98>> :> [exact_matches |-> (<<47, 97>> :> E1),
                         prefix_matches |-> (<<47, 98>> :> E2),
                         any_match |-> None])
    @@ (<<114>> :> [exact_matches |-> <<>>, prefix_matches |-> <<>>, any_match |-> Some(E3)])

\* Hosts::new()
HostsEmpty == <<>>

Snapshots == {HostsFull, HostsEmpty}

\* Context::host giving an unknown host an empty configuration.
Context_host_or_default(hosts, name) ==
    IF name \in DOMAIN hosts THEN Some(hosts[name]) ELSE Some(HostConfig_default)

\* Context::host
Context_host(hosts, name) == IF name \in DOMAIN hosts THEN Some(hosts[name]) ELSE None

\* http1_result! answering 400 for LimitReached too.
http1_result_all_400(err, limit_error) ==
    IF err \in {"LimitReached", "InvalidInput"} THEN response_plain(s_400, m_invalid_input)
    ELSE <<>>

\* http1_result!: what the handler writes to the client for a reader error.
http1_result(err, limit_error) ==
    IF err = "LimitReached" THEN response_status(limit_error)
    ELSE IF err = "InvalidInput" THEN response_plain(s_400, m_invalid_input)
    ELSE <<>>

-----------------------------------------------------------------------------
(* handle_http1_connection: reading and routing a request.                  *)

\* The client sends at most MaxLines lines on a connection, and in a request
\* at most MaxReqHeaders header lines after Host.
MaxLines == 7
MaxReqHeaders == 2

\* The state of a loop turn before its request is read (line 309).
RequestNew ==
    /\ h_input = <<>>
    /\ req_line = <<>>
    /\ h_method = <<>>
    /\ h_path = <<>>
    /\ rd_count = 0
    /\ host_line = <<>>
    /\ in_headers = <<>>
    /\ h_error = ""
    /\ h_summary = HeaderSummary_new
    /\ h_hosts = HostsEmpty
    /\ h_host = <<>>
    /\ h_endpoint = None
    /\ initial_data = <<>>
    /\ h_reply = <<>>
    /\ req_content_length = None
    /\ backend = 0
    /\ dialed = FALSE

\* The same at the head of a later turn.
RequestReset ==
    /\ h_input' = <<>>
    /\ req_line' = <<>>
    /\ h_method' = <<>>
    /\ h_path' = <<>>
    /\ rd_count' = 0
    /\ host_line' = <<>>
    /\ in_headers' = <<>>
    /\ h_error' = ""
    /\ h_summary' = HeaderSummary_new
    /\ h_hosts' = HostsEmpty
    /\ h_host' = <<>>
    /\ h_endpoint' = None
    /\ initial_data' = <<>>
    /\ h_reply' = <<>>
    /\ req_content_length' = None
    /\ backend' = 0
    /\ dialed' = FALSE

\* forward_to_backend not yet called.
ForwardNew ==
    /\ hdr_unsent = 0
    /\ body_sent = FALSE
    /\ copy_req_done = FALSE
    /\ resp_hdr_sent = FALSE
    /\ resp_body_sent = FALSE
    /\ copy_resp_done = FALSE
    /\ resp_length = None
    /\ fwd_result = "unset"
    /\ can_reuse = "unset"

ForwardReset ==
    /\ hdr_unsent' = 0
    /\ body_sent' = FALSE
    /\ copy_req_done' = FALSE
    /\ resp_hdr_sent' = FALSE
    /\ resp_body_sent' = FALSE
    /\ copy_resp_done' = FALSE
    /\ resp_length' = None
    /\ fwd_result' = "unset"
    /\ can_reuse' = "unset"

\* A connection accepted on one of the two listeners (lines 254-295).
HandlerInit ==
    /\ h_pc = "fill_buf"
    /\ forwarded_proto \in {b_http, b_https}
    /\ lines_read = 0
    /\ served = 0
    /\ prev = None
    /\ backend_log = <<>>
    /\ sock_shut = FALSE
    /\ RequestNew
    /\ ForwardNew

\* No connection.
HandlerIdle ==
    /\ h_pc = "idle"
    /\ forwarded_proto = b_http
    /\ lines_read = 0
    /\ served = 0
    /\ prev = None
    /\ backend_log = <<>>
    /\ sock_shut = FALSE
    /\ RequestNew
    /\ ForwardNew

\* The head of 'main (lines 297-309): the client's next bytes, its end of
\* file or a read error; a new Reader for the request.
h_fill_buf(ev) ==
    /\ h_pc = "fill_buf"
    /\ ev = "data" => lines_read < MaxLines
    /\ h_pc' = IF ev = "data" THEN "request_line" ELSE "end"
    /\ served' = IF ev = "data" THEN served + 1 ELSE served
    /\ RequestReset
    /\ ForwardReset
    /\ UNCHANGED <<forwarded_proto, lines_read, prev, backend_log, sock_shut>>
    /\ UNCHANGED <<cacheVars, connectVars, readerVars, routeVars, watchVars, codecVars, chanVars, streamVars>>

\* Lines 311-316 for what request_line returned: where the handler goes and
\* what it has written.
after_request_line(io, r) ==
    LET err == IF io THEN "IO" ELSE r.err
        stop == [pc |-> "returned", err |-> "", reply |-> <<>>, raw |-> <<>>,
                 method |-> <<>>, path |-> <<>>]
    IN  IF err # "" THEN [stop EXCEPT !.err = err, !.reply = http1_result(err, s_414)]
        ELSE IF ~is_utf8(r.path)
        THEN [stop EXCEPT !.reply = response_plain(s_400, m_invalid_path), !.raw = r.raw,
                          !.method = r.method]
        ELSE [stop EXCEPT !.pc = "first_header", !.raw = r.raw, !.method = r.method,
                          !.path = r.path]

\* The handler after the request line.
request_line_read(o) ==
    /\ h_pc' = o.pc
    /\ h_error' = o.err
    /\ h_reply' = o.reply
    /\ req_line' = o.raw
    /\ h_method' = o.method
    /\ h_path' = o.path
    /\ rd_count' = Len(o.raw)

\* reader.request_line(8192) and the path (lines 311-316).
h_request_line(s, io) ==
    /\ h_pc = "request_line"
    /\ lines_read < MaxLines
    /\ lines_read' = lines_read + 1
    /\ h_input' = s
    /\ request_line_read(after_request_line(io,
           Reader_request_line(s, Reader_ranger(MaxRequestLine, Some(ReaderLimit), rd_count))))
    /\ UNCHANGED <<host_line, in_headers, h_summary, h_hosts, h_host, h_endpoint,
                   initial_data, req_content_length, backend, dialed>>
    /\ UNCHANGED <<forwarded_proto, served, prev, backend_log, sock_shut, forwardVars>>
    /\ UNCHANGED <<cacheVars, connectVars, readerVars, routeVars, watchVars, codecVars, chanVars, streamVars>>

b_for_q == <<102, 111, 114, 61, 34>>  \* for="
b_q_proto == <<34, 59, 112, 114, 111, 116, 111, 61>>  \* ";proto=
b_host_eq == <<59, 104, 111, 115, 116, 61>>  \* ;host=
b_https_url == <<104, 116, 116, 112, 115, 58, 47, 47>>  \* https://

\* The value of the generated Forwarded header (lines 358-361).
forwarded_value(proto, host) == b_for_q \o remote \o b_q_proto \o proto \o b_host_eq \o host

\* The head of the request without the X-Forwarded-* headers.
initial_data_head_no_legacy(line, header_raw, proto, host) ==
    Writer_header(Writer_append(Writer_append(Writer_new, line), header_raw),
                  b_Forwarded, forwarded_value(proto, host))

\* The head of the request sent to the backend, before the client's other
\* headers (lines 354-366); LEGACY_XFORWARDED is true.
initial_data_head(line, header_raw, proto, host) ==
    LET w0 == Writer_append(Writer_append(Writer_new, line), header_raw)
        w1 == Writer_header(w0, b_Forwarded, forwarded_value(proto, host))
        w2 == Writer_header(w1, b_X_Forwarded_For, remote)
        w3 == Writer_header(w2, b_X_Forwarded_Proto, proto)
    IN  Writer_header(w3, b_X_Forwarded_Host, host)

\* Lines 318-366 for what header(512) returned under the snapshot hosts: where the
\* handler goes and what it has written or built.
first_header(io, hd, hosts, sum, line, path, proto) ==
    LET ph == process_header(sum, hd.name, hd.value)
        host == normalize_host(hd.value)
        cfg == Context_host(hosts, host)
        ep == endpoint_for(cfg[1], req_path(path))
        stop == [pc |-> "returned", err |-> "", reply |-> <<>>, raw |-> <<>>, summary |-> sum,
                 host |-> <<>>, endpoint |-> None, data |-> <<>>]
    IN  IF io THEN [stop EXCEPT !.err = "IO"]
        ELSE IF hd.err # ""
        THEN [stop EXCEPT !.err = hd.err, !.reply = http1_result(hd.err, s_413)]
        ELSE IF hd.end
        THEN [stop EXCEPT !.reply = response_plain(s_400, m_no_host)]
        ELSE IF ph.err # ""
        THEN [stop EXCEPT !.err = ph.err, !.reply = http1_result(ph.err, s_413)]
        ELSE IF ~eq_ignore_ascii_case(hd.name, b_host)
        THEN [stop EXCEPT !.reply = response_plain(s_400, m_first_host), !.raw = hd.raw]
        ELSE IF ~is_utf8(hd.value)
        THEN [stop EXCEPT !.reply = response_plain(s_400, m_invalid_host), !.raw = hd.raw]
        ELSE IF cfg = None
        THEN [stop EXCEPT !.reply = response_plain(s_404, m_unknown_host), !.raw = hd.raw,
                          !.host = host]
        ELSE IF ep = None
        THEN [stop EXCEPT !.reply = response_status(s_503), !.raw = hd.raw, !.host = host]
        ELSE IF ep[1].opts.ssl_redirect /\ proto # b_https
        THEN [stop EXCEPT !.pc = "end", !.raw = hd.raw, !.host = host, !.endpoint = ep,
                          !.reply = response_redirect(b_https_url \o host \o path)]
        ELSE [stop EXCEPT !.pc = "headers", !.raw = hd.raw, !.host = host, !.endpoint = ep,
                          !.summary = ph.summary,
                          !.data = initial_data_head(line, hd.raw, proto, host)]

\* The handler after the first header.
first_header_read(o) ==
    /\ h_pc' = o.pc
    /\ h_error' = o.err
    /\ h_reply' = o.reply
    /\ host_line' = o.raw
    /\ h_summary' = o.summary
    /\ h_host' = o.host
    /\ h_endpoint' = o.endpoint
    /\ initial_data' = o.data
    /\ rd_count' = rd_count + Len(o.raw)

\* reader.header(512), the host, the route and the head of the forwarded
\* request (lines 318-366).
h_first_header(s, io, hosts) ==
    /\ h_pc = "first_header"
    /\ lines_read < MaxLines
    /\ lines_read' = lines_read + 1
    /\ first_header_read(first_header(io,
           Reader_header(s, Reader_ranger(MaxHostHeader, Some(ReaderLimit), rd_count)),
           hosts, h_summary, req_line, h_path, forwarded_proto))
    /\ h_input' = s
    /\ h_hosts' = hosts
    /\ UNCHANGED <<req_line, h_method, h_path, in_headers, req_content_length, backend, dialed>>
    /\ UNCHANGED <<forwarded_proto, served, prev, backend_log, sock_shut, forwardVars>>
    /\ UNCHANGED <<cacheVars, connectVars, readerVars, routeVars, watchVars, codecVars, chanVars, streamVars>>

\* One turn of the header loop (lines 368-391) for what header(4096) returned.
later_header(io, hd, sum, method, data) ==
    LET ph == process_header(sum, hd.name, hd.value)
        stop == [pc |-> "returned", err |-> "", reply |-> <<>>, raw |-> <<>>, summary |-> sum,
                 data |-> data, length |-> None]
    IN  IF io THEN [stop EXCEPT !.err = "IO"]
        ELSE IF hd.err # ""
        THEN [stop EXCEPT !.err = hd.err, !.reply = http1_result(hd.err, s_413)]
        ELSE IF hd.end
        THEN [stop EXCEPT !.pc = "backend", !.raw = hd.raw, !.data = Writer_done(data),
                          !.length = request_length(sum, method)]
        ELSE IF ph.err # ""
        THEN [stop EXCEPT !.err = ph.err, !.reply = http1_result(ph.err, s_413)]
        ELSE IF \/ Header_is(hd, b_Forwarded)
                \/ Header_is(hd, b_X_Forwarded_For)
                \/ Header_is(hd, b_X_Forwarded_Proto)
                \/ Header_is(hd, b_X_Forwarded_Host)
        THEN [stop EXCEPT !.pc = "headers", !.raw = hd.raw, !.summary = ph.summary]
        ELSE [stop EXCEPT !.pc = "headers", !.raw = hd.raw, !.summary = ph.summary,
                          !.data = Writer_append(data, hd.raw)]

\* The handler after a turn of the header loop.
later_header_read(o) ==
    /\ h_pc' = o.pc
    /\ h_error' = o.err
    /\ h_reply' = o.reply
    /\ h_summary' = o.summary
    /\ initial_data' = o.data
    /\ req_content_length' = o.length
    /\ rd_count' = rd_count + Len(o.raw)
    /\ in_headers' = IF o.raw = <<>> \/ o.pc = "backend" THEN in_headers
                     ELSE Append(in_headers, o.raw)

h_header(s, io) ==
    /\ h_pc = "headers"
    /\ lines_read < MaxLines
    /\ Len(in_headers) < MaxReqHeaders \/ s = hl_end
    /\ lines_read' = lines_read + 1
    /\ later_header_read(later_header(io,
           Reader_header(s, Reader_ranger(MaxHeader, Some(ReaderLimit), rd_count)),
           h_summary, h_method, initial_data))
    /\ h_input' = s
    /\ UNCHANGED <<req_line, h_method, h_path, host_line, h_hosts, h_host, h_endpoint,
                   backend, dialed>>
    /\ UNCHANGED <<forwarded_proto, served, prev, backend_log, sock_shut, forwardVars>>
    /\ UNCHANGED <<cacheVars, connectVars, readerVars, routeVars, watchVars, codecVars, chanVars, streamVars>>


-----------------------------------------------------------------------------
(* handle_http1_connection: the backend connection and forward_to_backend.  *)

\* The Backend::connect calls of the connection so far.
Dials(log) == {i \in 1..Len(log) : log[i][1] = "connect"}

\* The carried-over backend left as it is.
shutdown_prev_skipped(log, p) == log

\* The shutdown of the carried-over backend, when there is one.
shutdown_prev(log, p) == IF p = None THEN log ELSE Append(log, <<"shutdown", p[1].backend>>)

\* The backend of the request (lines 393-410): the carried-over connection
\* when its endpoint is the request's, else the previous one is shut down and
\* Backend::connect is called, which succeeds or fails as Backend::connect can.
\* backend_log records the request's endpoint, then the shutdown and the call.
h_backend(res) ==
    /\ h_pc = "backend"
    /\ IF prev # None /\ prev[1].endpoint = h_endpoint[1]
       THEN /\ res = "Ok"
            /\ backend' = prev[1].backend
            /\ dialed' = FALSE
            /\ h_pc' = "write_initial"
            /\ backend_log' = Append(backend_log, <<"request", h_endpoint[1]>>)
            /\ UNCHANGED h_reply
       ELSE /\ backend_log' =
                   Append(shutdown_prev(Append(backend_log, <<"request", h_endpoint[1]>>), prev),
                          <<"connect", h_endpoint[1], res>>)
            /\ dialed' = TRUE
            /\ IF res = "Ok"
               THEN /\ backend' = Cardinality(Dials(backend_log)) + 1
                    /\ h_pc' = "write_initial"
                    /\ UNCHANGED h_reply
               ELSE /\ h_reply' = response_status(as_bytes(reply_for(res)))
                    /\ h_pc' = "returned"
                    /\ UNCHANGED backend
    /\ prev' = None
    /\ UNCHANGED <<h_input, req_line, h_method, h_path, rd_count, host_line, in_headers,
                   h_error, h_summary, h_hosts, h_host, h_endpoint, initial_data,
                   req_content_length>>
    /\ UNCHANGED <<forwarded_proto, lines_read, served, sock_shut, forwardVars>>
    /\ UNCHANGED <<cacheVars, connectVars, readerVars, routeVars, watchVars, codecVars, chanVars, streamVars>>

\* What AsyncWriteExt::write may report written of a buffer: all of it, or a
\* part of it (here all but the last byte).
write_counts(buf) == {n \in {Len(buf) - 1, Len(buf)} : 0 < n}

\* backend.write(&initial_data) (lines 596-601): an error is answered 502 and
\* ends the forward; otherwise the bytes the call wrote are on the backend
\* connection and initial_data is dropped. What the handler read of the
\* header is not used again.
f_write_initial(ok, n) ==
    /\ h_pc = "write_initial"
    /\ n \in write_counts(initial_data)
    /\ IF ok
       THEN /\ hdr_unsent' = Len(initial_data) - n
            /\ h_pc' = "select"
            /\ UNCHANGED <<h_reply, fwd_result>>
       ELSE /\ n = Len(initial_data)
            /\ h_reply' = response_status(s_502)
            /\ fwd_result' = "false"
            /\ h_pc' = "after_forward"
            /\ UNCHANGED hdr_unsent
    /\ initial_data' = <<>>
    /\ h_input' = <<>>
    /\ req_line' = <<>>
    /\ host_line' = <<>>
    /\ in_headers' = <<>>
    /\ h_method' = <<>>
    /\ h_path' = <<>>
    /\ rd_count' = 0
    /\ h_summary' = HeaderSummary_new
    /\ h_hosts' = HostsEmpty
    /\ h_host' = <<>>
    /\ UNCHANGED <<h_error, h_endpoint, req_content_length, backend, dialed>>
    /\ UNCHANGED <<body_sent, copy_req_done, resp_hdr_sent, resp_body_sent, copy_resp_done,
                   resp_length, can_reuse>>
    /\ UNCHANGED connVars
    /\ UNCHANGED <<cacheVars, connectVars, readerVars, routeVars, watchVars, codecVars, chanVars, streamVars>>

\* copy_req moving bytes of the request body to the backend (line 606).
f_req_chunk ==
    /\ h_pc \in {"select", "copy_body"}
    /\ ~copy_req_done
    /\ req_content_length # Some(0)
    /\ body_sent' = TRUE
    /\ UNCHANGED <<h_pc, hdr_unsent, copy_req_done, resp_hdr_sent, resp_body_sent,
                   copy_resp_done, resp_length, fwd_result, can_reuse>>
    /\ UNCHANGED <<connVars, requestVars>>
    /\ UNCHANGED <<cacheVars, connectVars, readerVars, routeVars, watchVars, codecVars, chanVars, streamVars>>

\* forward_to_backend returning true whatever the response's length.
forward_result_any_length(req_ok, resp_ok, length) ==
    IF req_ok /\ resp_ok THEN "true" ELSE "false"

\* forward_to_backend's result once both copies are over (lines 638-655).
forward_result(req_ok, resp_ok, length) ==
    IF req_ok /\ resp_ok /\ length # None THEN "true" ELSE "false"


\* copy_req ending (lines 618-625, 669-698): with an error the forward is over;
\* without one the forward goes on until the response is over too.
f_req_done(ok) ==
    /\ h_pc \in {"select", "copy_body"}
    /\ ~copy_req_done
    /\ IF ~ok
       THEN /\ fwd_result' = "false"
            /\ h_pc' = "after_forward"
            /\ UNCHANGED copy_req_done
       ELSE /\ copy_req_done' = TRUE
            /\ IF copy_resp_done
               THEN /\ fwd_result' = forward_result(TRUE, TRUE, resp_length)
                    /\ h_pc' = "after_forward"
               ELSE UNCHANGED <<fwd_result, h_pc>>
    /\ UNCHANGED <<hdr_unsent, body_sent, resp_hdr_sent, resp_body_sent, copy_resp_done,
                   resp_length, can_reuse>>
    /\ UNCHANGED <<connVars, requestVars>>
    /\ UNCHANGED <<cacheVars, connectVars, readerVars, routeVars, watchVars, codecVars, chanVars, streamVars>>

\* The lengths copy_response_header can return for the backend's responses.
ResponseLengths == {None, Some(0), Some(5)}

\* copy_response_header ending (lines 612-636, 704-730): an error ends the
\* forward; otherwise the status line and the header are with the client,
\* flushed by write_all, and the body's length is known or not.
f_hdr_done(ok, length) ==
    /\ h_pc = "select"
    /\ IF ~ok
       THEN /\ length = None
            /\ fwd_result' = "false"
            /\ h_pc' = "after_forward"
            /\ UNCHANGED <<resp_hdr_sent, resp_length>>
       ELSE /\ resp_hdr_sent' = TRUE
            /\ resp_length' = length
            /\ h_pc' = "copy_body"
            /\ UNCHANGED fwd_result
    /\ UNCHANGED <<hdr_unsent, body_sent, copy_req_done, resp_body_sent, copy_resp_done,
                   can_reuse>>
    /\ UNCHANGED <<connVars, requestVars>>
    /\ UNCHANGED <<cacheVars, connectVars, readerVars, routeVars, watchVars, codecVars, chanVars, streamVars>>

\* copy_resp moving bytes of the response body to the client (lines 638-651).
f_resp_chunk ==
    /\ h_pc = "copy_body"
    /\ ~copy_resp_done
    /\ resp_length # Some(0)
    /\ resp_body_sent' = TRUE
    /\ UNCHANGED <<h_pc, hdr_unsent, body_sent, copy_req_done, resp_hdr_sent, copy_resp_done,
                   resp_length, fwd_result, can_reuse>>
    /\ UNCHANGED <<connVars, requestVars>>
    /\ UNCHANGED <<cacheVars, connectVars, readerVars, routeVars, watchVars, codecVars, chanVars, streamVars>>

\* copy_resp ending (copy_req_and_resp, lines 658-701).
f_resp_done(ok) ==
    /\ h_pc = "copy_body"
    /\ ~copy_resp_done
    /\ IF ~ok
       THEN /\ fwd_result' = "false"
            /\ h_pc' = "after_forward"
            /\ UNCHANGED copy_resp_done
       ELSE /\ copy_resp_done' = TRUE
            /\ IF copy_req_done
               THEN /\ fwd_result' = forward_result(TRUE, TRUE, resp_length)
                    /\ h_pc' = "after_forward"
               ELSE UNCHANGED <<fwd_result, h_pc>>
    /\ UNCHANGED <<hdr_unsent, body_sent, copy_req_done, resp_hdr_sent, resp_body_sent,
                   resp_length, can_reuse>>
    /\ UNCHANGED <<connVars, requestVars>>
    /\ UNCHANGED <<cacheVars, connectVars, readerVars, routeVars, watchVars, codecVars, chanVars, streamVars>>

\* Lines 422-428: whether the connection serves another request.
h_after_forward ==
    /\ h_pc = "after_forward"
    /\ can_reuse' = IF fwd_result = "true" /\ req_content_length # None THEN "true" ELSE "false"
    /\ prev' = Some([endpoint |-> h_endpoint[1], backend |-> backend])
    /\ h_pc' = IF can_reuse' = "true" THEN "fill_buf" ELSE "end"
    /\ UNCHANGED <<hdr_unsent, body_sent, copy_req_done, resp_hdr_sent, resp_body_sent,
                   copy_resp_done, resp_length, fwd_result>>
    /\ UNCHANGED <<forwarded_proto, lines_read, served, backend_log, sock_shut, requestVars>>
    /\ UNCHANGED <<cacheVars, connectVars, readerVars, routeVars, watchVars, codecVars, chanVars, streamVars>>

\* After 'main (lines 431-435): the carried-over backend and the client's
\* socket are shut down.
h_end ==
    /\ h_pc = "end"
    /\ backend_log' = shutdown_prev(backend_log, prev)
    /\ prev' = None
    /\ sock_shut' = TRUE
    /\ h_pc' = "closed"
    /\ UNCHANGED <<forwarded_proto, lines_read, served, requestVars, forwardVars>>
    /\ UNCHANGED <<cacheVars, connectVars, readerVars, routeVars, watchVars, codecVars, chanVars, streamVars>>

HandlerNext ==
    \/ \E ev \in {"data", "eof", "err"} : h_fill_buf(ev)
    \/ \E s \in RequestLines, io \in BOOLEAN : h_request_line(s, io)
    \/ \E s \in FirstHeaders, io \in BOOLEAN, hosts \in Snapshots : h_first_header(s, io, hosts)
    \/ \E s \in LaterHeaders, io \in BOOLEAN : h_header(s, io)
    \/ \E res \in {"Ok", "LookupFailed", "ConnectFailed"} : h_backend(res)
    \/ \E ok \in BOOLEAN, n \in write_counts(initial_data) : f_write_initial(ok, n)
    \/ f_req_chunk
    \/ \E ok \in BOOLEAN : f_req_done(ok)
    \/ \E ok \in BOOLEAN, length \in ResponseLengths : f_hdr_done(ok, length)
    \/ f_resp_chunk
    \/ \E ok \in BOOLEAN : f_resp_done(ok)
    \/ h_after_forward
    \/ h_end

-----------------------------------------------------------------------------
(* KubeWatcher: the objects of the cluster and what is parsed of them.      *)

MaxEvents == 8
MaxFailures == 1

\* Ingress objects as the API server delivers them. A path's backend is the
\* name of a service with a port, "noport" for a service without one, or
\* "none"; a key is the object's (namespace, name), in the keys' order.
raw_exact_a == [path_type |-> "Exact", path |-> Some("/a"), backend |-> "s1"]
raw_prefix_b == [path_type |-> "Prefix", path |-> Some("/b"), backend |-> "noport"]
raw_any == [path_type |-> "ImplementationSpecific", path |-> None, backend |-> "s3"]
raw_root_nobackend == [path_type |-> "Prefix", path |-> Some("/"), backend |-> "none"]
raw_other == [path_type |-> "Regex", path |-> Some("/r"), backend |-> "s1"]
raw_root == [path_type |-> "Prefix", path |-> Some("/"), backend |-> "s3"]
raw_empty == [path_type |-> "ImplementationSpecific", path |-> Some(""), backend |-> "s3"]
raw_exact_a2 == [path_type |-> "Exact", path |-> Some("/a"), backend |-> "s2"]

\* Host names, as bytes: "a.b", "A.B" and "c".
host_ab == <<97, 46, 98>>
host_AB == <<65, 46, 66>>
host_c == <<99>>

\* The annotation keys of an option, under the two prefixes.
ann_ik(k) == "ingress.kubernetes.io/" \o k
ann_nginx(k) == "nginx.ingress.kubernetes.io/" \o k

\* One rule for a.b with an exact path; no annotations.
ing_a ==
    [key |-> 1, has_spec |-> TRUE, default_backend |-> None, tls |-> <<>>,
     annotations |-> None,
     rules |-> <<[host |-> Some(host_ab), http |-> Some(<<raw_exact_a>>)]>>]
\* One rule for a.b without http paths; secure-backends with another value.
ing_nopaths ==
    [key |-> 1, has_spec |-> TRUE, default_backend |-> None, tls |-> <<>>,
     annotations |-> Some(ann_ik("secure-backends") :> "yes"),
     rules |-> <<[host |-> Some(host_ab), http |-> None]>>]
\* One rule for A.B with an exact path; secure-backends under the nginx prefix
\* only, http2 under both prefixes.
ing_upper ==
    [key |-> 1, has_spec |-> TRUE, default_backend |-> None, tls |-> <<>>,
     annotations |-> Some((ann_nginx("secure-backends") :> "true")
                          @@ (ann_ik("http2") :> "false")
                          @@ (ann_nginx("http2") :> "true")),
     rules |-> <<[host |-> Some(host_AB), http |-> Some(<<raw_exact_a>>)]>>]
\* One rule for c whose only path has no usable backend, and no default one.
ing_nobackend ==
    [key |-> 2, has_spec |-> TRUE, default_backend |-> None, tls |-> <<>>,
     annotations |-> Some(<<>>),
     rules |-> <<[host |-> Some(host_c), http |-> Some(<<raw_root_nobackend>>)]>>]
\* A rule without host, then a rule for c with a prefix served by the default
\* backend, the paths "/" and "", an absent path and a path of another type;
\* then a rule for a.b with the exact path of ing_a and another service;
\* TLS for c; secure-backends
\* under both prefixes, http2 under the nginx prefix.
ing_c ==
    [key |-> 2, has_spec |-> TRUE, default_backend |-> Some("s2"),
     tls |-> <<[hosts |-> {host_c}, secret_name |-> Some("sk")]>>,
     annotations |-> Some((ann_ik("secure-backends") :> "true")
                          @@ (ann_nginx("secure-backends") :> "false")
                          @@ (ann_nginx("http2") :> "true")),
     rules |-> <<[host |-> None, http |-> Some(<<raw_exact_a>>)],
                 [host |-> Some(host_c),
                  http |-> Some(<<raw_prefix_b, raw_root, raw_empty, raw_any, raw_other>>)],
                 [host |-> Some(host_ab), http |-> Some(<<raw_exact_a2>>)]>>]
\* An object without spec.
ing_nospec ==
    [key |-> 2, has_spec |-> FALSE, default_backend |-> None, tls |-> <<>>,
     annotations |-> None, rules |-> <<>>]

RawIngresses == {ing_a, ing_nopaths, ing_upper, ing_nobackend, ing_c, ing_nospec}

\* TLS secrets: with a valid key and certificate, or without.
sec_ok == [key |-> "sk", valid |-> TRUE]
sec_bad == [key |-> "sk", valid |-> FALSE]

RawSecrets == {sec_ok, sec_bad}

\* IngressBackend::from_backend
IngressBackend_from_backend(b) == IF b \in {"none", "noport"} THEN None ELSE Some(b)

\* from_http_path taking only an absent path for Any.
IngressMatch_from_http_path_absent(p, default_backend) ==
    LET own == IngressBackend_from_backend(p.backend)
        chosen == IF own # None THEN own
                   ELSE IF default_backend = None THEN None
                   ELSE IngressBackend_from_backend(default_backend[1])
    IN  IF p.path_type = "Exact"
        THEN Some([path_match |-> <<"Exact", p.path[1]>>, backend |-> chosen])
        ELSE IF p.path_type \in {"Prefix", "ImplementationSpecific"}
        THEN IF p.path = None
             THEN Some([path_match |-> <<"Any">>, backend |-> chosen])
             ELSE Some([path_match |-> <<"Prefix", p.path[1]>>, backend |-> chosen])
        ELSE None

\* IngressMatch::from_http_path
IngressMatch_from_http_path(p, default_backend) ==
    LET own == IngressBackend_from_backend(p.backend)
        chosen == IF own # None THEN own
                   ELSE IF default_backend = None THEN None
                   ELSE IngressBackend_from_backend(default_backend[1])
    IN  IF p.path_type = "Exact"
        THEN Some([path_match |-> <<"Exact", p.path[1]>>, backend |-> chosen])
        ELSE IF p.path_type \in {"Prefix", "ImplementationSpecific"}
        THEN IF p.path = None \/ p.path \in {Some(""), Some("/")}
             THEN Some([path_match |-> <<"Any">>, backend |-> chosen])
             ELSE Some([path_match |-> <<"Prefix", p.path[1]>>, backend |-> chosen])
        ELSE None

\* Iterator::filter_map(f).collect() for the option-valued f, given as the
\* sequence of its results.
RECURSIVE filter_map(_)
filter_map(opts) ==
    IF opts = <<>> THEN <<>>
    ELSE IF Head(opts) = None THEN filter_map(Tail(opts))
    ELSE <<Head(opts)[1]>> \o filter_map(Tail(opts))

\* The secret name of the first tls entry whose hosts contain the host.
tls_secret_for(tls, host) ==
    LET I == {i \in 1..Len(tls) : host \in tls[i].hosts}
    IN  IF I = {} THEN None ELSE tls[Least(I)].secret_name

\* IngressRule::from_rule
IngressRule_from_rule(rule, ing) ==
    IF rule.host = None THEN None
    ELSE Some([host |-> rule.host[1],
               tls_secret |-> tls_secret_for(ing.tls, rule.host[1]),
               matches |-> IF rule.http = None THEN <<>>
                           ELSE filter_map([i \in 1..Len(rule.http[1]) |->
                                    IngressMatch_from_http_path(rule.http[1][i],
                                                                ing.default_backend)])])

\* get_opt looking under the nginx prefix first.
get_opt_nginx_first(annotations, k) ==
    IF annotations = None THEN None
    ELSE IF ann_nginx(k) \in DOMAIN annotations[1] THEN Some(annotations[1][ann_nginx(k)])
    ELSE IF ann_ik(k) \in DOMAIN annotations[1] THEN Some(annotations[1][ann_ik(k)])
    ELSE None

\* The closure get_opt of Ingress::value_from (lines 1021-1027).
get_opt(annotations, k) ==
    IF annotations = None THEN None
    ELSE IF ann_ik(k) \in DOMAIN annotations[1] THEN Some(annotations[1][ann_ik(k)])
    ELSE IF ann_nginx(k) \in DOMAIN annotations[1] THEN Some(annotations[1][ann_nginx(k)])
    ELSE None

\* Ingress::value_from: None for Err.
Ingress_value_from(ing) ==
    IF ~ing.has_spec THEN None
    ELSE Some([rules |-> filter_map([i \in 1..Len(ing.rules) |->
                             IngressRule_from_rule(ing.rules[i], ing)]),
               endpoint_opts |->
                   [secure_backends |-> get_opt(ing.annotations, "secure-backends") = Some("true"),
                    ssl_redirect |-> get_opt(ing.annotations, "secure-backends") = Some("true"),
                    http2 |-> get_opt(ing.annotations, "http2") = Some("true")]])

\* IngressMatch::endpoint
IngressMatch_endpoint(m, opts) ==
    IF m.backend = None THEN None ELSE Some([service |-> m.backend[1], opts |-> opts])


-----------------------------------------------------------------------------
(* KubeWatcher: the watcher state, the assembly and the loop.               *)

Kinds == {"ing", "secrets"}

\* Map::remove
map_remove(m, k) == [x \in DOMAIN m \ {k} |-> m[x]]

\* Map::insert
map_insert(m, k, v) == (k :> v) @@ m

\* ingest_event whose Apply removes an object that is in the map.
ingest_event_toggle(map, type, obj) ==
    IF type = "Init" THEN [map |-> <<>>, ready |-> FALSE]
    ELSE IF type = "InitDone" THEN [map |-> map, ready |-> TRUE]
    ELSE IF type = "Delete" \/ (type = "Apply" /\ obj.key \in DOMAIN map)
    THEN [map |-> map_remove(map, obj.key), ready |-> TRUE]
    ELSE [map |-> IF Ingress_value_from(obj) = None THEN map
                  ELSE map_insert(map, obj.key, Ingress_value_from(obj)[1]),
          ready |-> type = "Apply"]

\* ingest_event whose Delete leaves the map as it is.
ingest_event_no_remove(map, type, obj) ==
    IF type = "Init" THEN [map |-> <<>>, ready |-> FALSE]
    ELSE IF type \in {"InitDone", "Delete"} THEN [map |-> map, ready |-> TRUE]
    ELSE [map |-> IF Ingress_value_from(obj) = None THEN map
                  ELSE map_insert(map, obj.key, Ingress_value_from(obj)[1]),
          ready |-> type = "Apply"]

\* ingest_event answering ready for InitApply too.
ingest_event_eager(map, type, obj) ==
    IF type = "Init" THEN [map |-> <<>>, ready |-> FALSE]
    ELSE IF type = "InitDone" THEN [map |-> map, ready |-> TRUE]
    ELSE IF type = "Delete" THEN [map |-> map_remove(map, obj.key), ready |-> TRUE]
    ELSE [map |-> IF Ingress_value_from(obj) = None THEN map
                  ELSE map_insert(map, obj.key, Ingress_value_from(obj)[1]),
          ready |-> TRUE]

\* ingest_event::<Ingress, _>: the map and the ready flag after the event.
ingest_event(map, type, obj) ==
    IF type = "Init" THEN [map |-> <<>>, ready |-> FALSE]
    ELSE IF type = "InitDone" THEN [map |-> map, ready |-> TRUE]
    ELSE IF type = "Delete" THEN [map |-> map_remove(map, obj.key), ready |-> TRUE]
    ELSE [map |-> IF Ingress_value_from(obj) = None THEN map
                  ELSE map_insert(map, obj.key, Ingress_value_from(obj)[1]),
          ready |-> type = "Apply"]

\* WatcherState::set_secret
set_secret(map, sec) == IF sec.valid THEN map_insert(map, sec.key, "ck") ELSE map

\* ingest_secret_event answering ready for Init.
ingest_secret_event_init_ready(map, type, sec) ==
    IF type \in {"Init", "InitDone"} THEN [map |-> map, ready |-> TRUE]
    ELSE IF type = "Delete" THEN [map |-> map_remove(map, sec.key), ready |-> TRUE]
    ELSE [map |-> set_secret(map, sec), ready |-> type = "Apply"]

\* WatcherState::ingest_secret_event: Init leaves the map as it is.
ingest_secret_event(map, type, sec) ==
    IF type = "Init" THEN [map |-> map, ready |-> FALSE]
    ELSE IF type = "InitDone" THEN [map |-> map, ready |-> TRUE]
    ELSE IF type = "Delete" THEN [map |-> map_remove(map, sec.key), ready |-> TRUE]
    ELSE [map |-> set_secret(map, sec), ready |-> type = "Apply"]

\* HostConfig::default, with its TLS fields.
HostConfig_new ==
    [exact_matches |-> <<>>, prefix_matches |-> <<>>, any_match |-> None,
     tls_secret |-> None, tls_key_cert |-> None]

\* The body of `for m in &rule.matches` (lines 816-832).
apply_match(cfg, m, opts) ==
    IF IngressMatch_endpoint(m, opts) = None THEN cfg
    ELSE IF m.path_match[1] = "Exact"
    THEN [cfg EXCEPT !.exact_matches =
              map_insert(@, m.path_match[2], IngressMatch_endpoint(m, opts)[1])]
    ELSE IF m.path_match[1] = "Prefix"
    THEN [cfg EXCEPT !.prefix_matches =
              map_insert(@, m.path_match[2], IngressMatch_endpoint(m, opts)[1])]
    ELSE [cfg EXCEPT !.any_match = IngressMatch_endpoint(m, opts)]

RECURSIVE apply_matches(_, _, _)
apply_matches(cfg, ms, opts) ==
    IF ms = <<>> THEN cfg ELSE apply_matches(apply_match(cfg, Head(ms), opts), Tail(ms), opts)

\* The rule's TLS secret and its key and certificate, when it names one
\* (lines 806-813).
with_tls(cfg, rule, secs) ==
    IF rule.tls_secret = None THEN cfg
    ELSE [cfg EXCEPT !.tls_key_cert = IF rule.tls_secret[1] \in DOMAIN secs
                                      THEN Some(secs[rule.tls_secret[1]]) ELSE None,
                     !.tls_secret = rule.tls_secret]

\* The body of `for rule in &ing.rules` (lines 800-835): the host's entry is
\* inserted whatever the rule added to it.
assemble_rule(hs, rule, opts, secs) ==
    map_insert(hs, rule.host,
        apply_matches(with_tls(IF rule.host \in DOMAIN hs THEN hs[rule.host]
                               ELSE HostConfig_new, rule, secs),
                      rule.matches, opts))

RECURSIVE assemble_rules(_, _, _, _)
assemble_rules(hs, rules, opts, secs) ==
    IF rules = <<>> THEN hs
    ELSE assemble_rules(assemble_rule(hs, Head(rules), opts, secs), Tail(rules), opts, secs)

Greatest(I) == CHOOSE i \in I : \A j \in I : i >= j

\* The assembly going through the ingresses from the greatest key down.
RECURSIVE assemble_from_greatest(_, _, _, _)
assemble_from_greatest(hs, ings, keys, secs) ==
    IF keys = {} THEN hs
    ELSE assemble_from_greatest(
             assemble_rules(hs, ings[Greatest(keys)].rules,
                            ings[Greatest(keys)].endpoint_opts, secs),
             ings, keys \ {Greatest(keys)}, secs)

\* `for (key, ing) in &self.state.ingresses`, in the keys' order.
RECURSIVE assemble_from(_, _, _, _)
assemble_from(hs, ings, keys, secs) ==
    IF keys = {} THEN hs
    ELSE assemble_from(
             assemble_rules(hs, ings[Least(keys)].rules, ings[Least(keys)].endpoint_opts, secs),
             ings, keys \ {Least(keys)}, secs)

\* The snapshot run_once assembles (lines 796-836).
assemble(ings, secs) == assemble_from(<<>>, ings, DOMAIN ings, secs)

\* KubeWatcher::new and WatcherState::new, before run.
WatchNew ==
    /\ ingresses = <<>>
    /\ ings_ready = FALSE
    /\ secrets = <<>>
    /\ secrets_ready = FALSE
    /\ was_ready = FALSE
    /\ streams = [k \in Kinds |-> "new"]
    /\ tx = <<>>
    /\ w_sends = 0
    /\ w_events = 0
    /\ w_failures = 0
    /\ w_last = [kind |-> "", type |-> ""]
    /\ w_hist = <<>>
    /\ inits_done = {}
    /\ tx_at_failure = <<>>

WatchInit == w_pc = "run_once" /\ WatchNew

\* No watcher.
WatchIdle == w_pc = "idle" /\ WatchNew

\* The head of run_once (lines 771-778): new streams, the state cleared.
w_run_once ==
    /\ w_pc = "run_once"
    /\ w_pc' = "ingest"
    /\ streams' = [k \in Kinds |-> "new"]
    /\ was_ready' = FALSE
    /\ ingresses' = <<>>
    /\ ings_ready' = FALSE
    /\ secrets' = <<>>
    /\ secrets_ready' = FALSE
    /\ UNCHANGED <<tx, w_sends, w_events, w_failures, w_last, w_hist, inits_done, tx_at_failure>>
    /\ UNCHANGED <<cacheVars, connectVars, readerVars, routeVars, handlerVars, codecVars, chanVars, streamVars>>

\* The events a watcher stream delivers: Init first; then the listed objects
\* and InitDone; then changes, or Init again when the watch is restarted.
stream_allows(phase, type) ==
    \/ phase = "new" /\ type = "Init"
    \/ phase = "listing" /\ type \in {"InitApply", "InitDone"}
    \/ phase = "watching" /\ type \in {"Apply", "Delete", "Init"}

stream_after(type) ==
    IF type \in {"Init", "InitApply"} THEN "listing" ELSE "watching"

EventTypes == {"Init", "InitApply", "InitDone", "Apply", "Delete"}

\* What is remembered of the changes ingested last: of an Apply ingested in a
\* ready state, its object, the snapshot readers saw and the maps before it,
\* whether the object's key was in its map and whether the event before it
\* was the same Apply; of a Delete that follows the Apply of the same object, what
\* was remembered of that Apply; nothing of any other event.
hist_after(hist, which, type, obj, ready, snapshot, ings, secs) ==
    IF ready /\ type = "Apply"
    THEN <<[kind |-> which, type |-> "Apply", obj |-> obj, tx_before |-> snapshot,
            ingresses_before |-> ings, secrets_before |-> secs,
            had |-> obj.key \in DOMAIN (IF which = "ing" THEN ings ELSE secs),
            again |-> hist # <<>> /\ hist[1].type = "Apply" /\ hist[1].kind = which
                      /\ hist[1].obj = obj]>>
    ELSE IF ready /\ type = "Delete" /\ hist # <<>> /\ hist[1].type = "Apply"
            /\ hist[1].kind = which /\ hist[1].obj = obj
    THEN <<[hist[1] EXCEPT !.type = "Delete", !.again = FALSE]>>
    ELSE <<>>

\* One turn of run_once's loop (lines 780-838): an event of one stream is
\* ingested, and when both kinds are ready the snapshot is assembled and
\* published.
w_ingest(which, type, obj) ==
    /\ w_pc = "ingest"
    /\ w_events < MaxEvents
    /\ stream_allows(streams[which], type)
    /\ streams' = [streams EXCEPT ![which] = stream_after(type)]
    /\ IF which = "ing"
       THEN /\ obj \in RawIngresses
            /\ ingresses' = ingest_event(ingresses, type, obj).map
            /\ ings_ready' = ingest_event(ingresses, type, obj).ready
            /\ UNCHANGED <<secrets, secrets_ready>>
       ELSE /\ obj \in RawSecrets
            /\ secrets' = ingest_secret_event(secrets, type, obj).map
            /\ secrets_ready' = ingest_secret_event(secrets, type, obj).ready
            /\ UNCHANGED <<ingresses, ings_ready>>
    /\ was_ready' = (ings_ready' /\ secrets_ready')
    /\ IF ings_ready' /\ secrets_ready'
       THEN /\ tx' = assemble(ingresses', secrets')
            /\ w_sends' = w_sends + 1
       ELSE UNCHANGED <<tx, w_sends>>
    /\ w_events' = w_events + 1
    /\ w_last' = [kind |-> which, type |-> type]
    /\ w_hist' = hist_after(w_hist, which, type, obj, ings_ready /\ secrets_ready, tx,
                            ingresses, secrets)
    /\ inits_done' = IF type = "InitDone" THEN inits_done \cup {which} ELSE inits_done
    /\ UNCHANGED <<w_pc, w_failures, tx_at_failure>>
    /\ UNCHANGED <<cacheVars, connectVars, readerVars, routeVars, handlerVars, codecVars, chanVars, streamVars>>

\* A stream fails (line 899 or 904): run_once returns the error and run
\* sleeps for retry_delay (lines 761-766).
w_fail ==
    /\ w_pc = "ingest"
    /\ w_failures < MaxFailures
    /\ w_pc' = "sleep"
    /\ w_failures' = w_failures + 1
    /\ w_hist' = <<>>
    /\ inits_done' = {}
    /\ tx_at_failure' = tx
    /\ UNCHANGED <<ingresses, ings_ready, secrets, secrets_ready, was_ready, streams, tx,
                   w_sends, w_events, w_last>>
    /\ UNCHANGED <<cacheVars, connectVars, readerVars, routeVars, handlerVars, codecVars, chanVars, streamVars>>

\* The retry delay is over (line 766): run calls run_once again.
w_retry ==
    /\ w_pc = "sleep"
    /\ w_pc' = "run_once"
    /\ UNCHANGED <<ingresses, ings_ready, secrets, secrets_ready, was_ready, streams, tx,
                   w_sends, w_events, w_failures, w_last, w_hist, inits_done, tx_at_failure>>
    /\ UNCHANGED <<cacheVars, connectVars, readerVars, routeVars, handlerVars, codecVars, chanVars, streamVars>>

WatchNext ==
    \/ w_run_once
    \/ \E which \in Kinds, type \in EventTypes, obj \in RawIngresses \cup RawSecrets :
           w_ingest(which, type, obj)
    \/ w_fail
    \/ w_retry


-----------------------------------------------------------------------------
(* http1::Writer and http1::Reader back to back: src/http1.rs.              *)
(* A Writer puts lines on a stream from the fields it is given; a Reader    *)
(* then takes the stream apart call by call. After the written bytes the    *)
(* stream is at its end.                                                    *)

\* The lines a stream holds at most.
MaxItems == 2

\* A per-call limit no line of the stream reaches.
BigLimit == 64

b_sp == <<32>>

\* A name of n bytes, all "a".
name_of(n) == [i \in 1..n |-> 97]

\* The fields handed to the Writer: a first line, and the lines after it.
RequestFields ==
    { <<(<<71>>), (<<47>>), (<<72>>)>>,                 \* "G", "/", "H"
      <<(<<71, 32, 84>>), (<<47>>), (<<72>>)>>,         \* "G T", "/", "H"
      <<(<<71>>), (<<>>), (<<72>>)>>,                   \* "G", "", "H"
      <<(<<71>>), (<<47>>), (<<72, 32, 49>>)>> }        \* "G", "/", "H 1"

StatusFields ==
    { <<(<<50, 48, 48>>), (<<79, 75>>)>>,               \* "200", "OK"
      <<(<<50, 32, 48>>), (<<79, 75>>)>>,               \* "2 0", "OK"
      <<(<<120>>), (<<79, 75>>)>>,                      \* "x", "OK"
      <<(<<50, 48, 48>>), (<<79, 32, 75>>)>>,           \* "200", "O K"
      <<(<<50, 48, 48>>), (<<>>)>> }                    \* "200", ""

HeaderFields ==
    { <<(<<110>>), (<<118>>)>>,                         \* "n", "v"
      <<(<<110, 58, 109>>), (<<118>>)>>,                \* "n:m", "v"
      <<name_of(HeaderNameLimit - 3), (<<118>>)>>,
      <<name_of(HeaderNameLimit - 2), (<<118>>)>>,
      <<(<<110>>), (<<>>)>>,                            \* "n", ""
      <<(<<110>>), (<<118, 32, 119>>)>>,                \* "n", "v w"
      <<(<<110>>), (<<118, 13, 10, 32, 119>>)>>,        \* "n", "v\r\n w": folded
      <<b_Content_Length, (<<118>>)>> }

HeaderItems ==
    {[kind |-> "header", fields |-> f] : f \in HeaderFields}
    \cup {[kind |-> "end", fields |-> <<>>]}

\* The lines written after the first one: "n: v", "n: v\r\n w" and the empty line.
LaterItems ==
    {[kind |-> "header", fields |-> <<(<<110>>), v>>] :
        v \in {<<118>>, <<118, 13, 10, 32, 119>>}}
    \cup {[kind |-> "end", fields |-> <<>>]}

Items ==
    {[kind |-> "request", fields |-> f] : f \in RequestFields}
    \cup {[kind |-> "status", fields |-> <<SubSeq(b_http11, 1, 8)>> \o f] : f \in StatusFields}
    \cup HeaderItems

\* Writer::status without the space after the protocol.
Writer_status_joined(w, status) == w \o SubSeq(b_http11, 1, 8) \o status \o b_crlf

\* Writer::status
Writer_status(w, status) == w \o b_http11 \o status \o b_crlf

\* A request line put together with Writer::append: method SP path SP proto CRLF.
Writer_request_line(w, method, path, proto) ==
    Writer_crlf(Writer_append(Writer_append(Writer_append(Writer_append(Writer_append(
        w, method), b_sp), path), b_sp), proto))

\* The line the Writer makes of an item.
Writer_item(w, item) ==
    CASE item.kind = "request" ->
           Writer_request_line(w, item.fields[1], item.fields[2], item.fields[3])
      [] item.kind = "status" ->
           Writer_status(w, item.fields[2] \o b_sp \o item.fields[3])
      [] item.kind = "header" -> Writer_header(w, item.fields[1], item.fields[2])
      [] OTHER -> Writer_done(w)

\* str::parse::<u16> of the status code: digits after an optional '+', at most 65535.
parse_u16(v) ==
    LET d == IF v # <<>> /\ v[1] = 43 THEN Tail(v) ELSE v IN
    IF d # <<>> /\ Len(d) <= 5 /\ (\A i \in 1..Len(d) : d[i] \in 48..57)
       /\ Digits(d) <= 65535
    THEN Some(Digits(d))
    ELSE None

\* What a Reader call returns: the error, the bytes it consumed, the bytes it
\* added to Reader.count, whether it met the end of the header, the fields.
Returned(err, count, counted, end, fields) ==
    [err |-> err, count |-> count, counted |-> counted, end |-> end, fields |-> fields]

\* Reader::request_line under the limit of its Ranger.
call_request_line(s, limit) ==
    LET r == Reader_request_line(s, limit) IN
    IF r.err # "" THEN Returned(r.err, 0, 0, FALSE, <<>>)
    ELSE Returned("", Len(r.raw), Len(r.raw), FALSE, <<r.method, r.path, r.proto>>)

\* Reader::status_line under the limit of its Ranger: the line is read and
\* counted before the status code is parsed.
call_status_line(s, limit) ==
    LET r == Reader_request_line(s, limit) IN
    IF r.err # "" THEN Returned(r.err, 0, 0, FALSE, <<>>)
    ELSE IF parse_u16(r.path) = None
    THEN Returned("InvalidInput", Len(r.raw), Len(r.raw), FALSE, <<>>)
    ELSE Returned("", Len(r.raw), Len(r.raw), FALSE, <<r.method, r.path, r.proto>>)

\* Ranger::peek: the byte after the ones read, or the error.
Ranger_peek(s, limit, count) ==
    IF count = limit THEN [err |-> "LimitReached", byte |-> 0]
    ELSE IF count + 1 > Len(s) THEN [err |-> "InvalidInput", byte |-> 0]
    ELSE [err |-> "", byte |-> s[count + 1]]

\* Reader::header_name under the limit of its Ranger. The end of the header
\* returns before Reader.count is updated.
call_header_name(s, limit) ==
    LET first == Ranger_peek(s, limit, 0)
        eoh == Ranger_expect(s, limit, 10, Ranger_expect(s, limit, 13, Ranger_new))
        nm == Ranger_range_to_and_skip_sp(s, limit, 58, Ranger_new)
    IN  IF first.err # "" THEN Returned(first.err, 0, 0, FALSE, <<>>)
        ELSE IF first.byte = 13
        THEN IF eoh.err # "" THEN Returned(eoh.err, 0, 0, FALSE, <<>>)
             ELSE Returned("", eoh.count, 0, TRUE, <<>>)
        ELSE IF nm.err # "" THEN Returned(nm.err, 0, 0, FALSE, <<>>)
        ELSE Returned("", nm.count, nm.count, FALSE, <<SubSeq(s, nm.from, nm.to)>>)

\* Ranger::next_is_sp that never sees a continuation line.
Ranger_next_is_sp_never(s, limit, count) ==
    [Ranger_peek(s, limit, count) EXCEPT !.byte = 0]

\* Ranger::next_is_sp: peeks, consuming nothing; byte is 1 for a space or tab.
Ranger_next_is_sp(s, limit, count) ==
    LET p == Ranger_peek(s, limit, count) IN
    [p EXCEPT !.byte = IF p.err = "" /\ p.byte \in {32, 9} THEN 1 ELSE 0]

\* Reader::read_header_value's loop from the Ranger state st on; the range
\* started at byte start.
RECURSIVE value_loop(_, _, _, _)

value_next(s, limit, start, v, nl, sp) ==
    IF nl.err # "" THEN nl
    ELSE IF sp.err # "" THEN [nl EXCEPT !.err = sp.err]
    ELSE IF sp.byte = 1 THEN value_loop(s, limit, start, nl)
    ELSE [count |-> nl.count, err |-> "", from |-> start, to |-> v.to]

value_crlf(s, limit, start, v, nl) ==
    value_next(s, limit, start, v, nl, Ranger_next_is_sp(s, limit, nl.count))

value_turn(s, limit, start, v) ==
    value_crlf(s, limit, start, v, Ranger_expect(s, limit, 10, Ranger_expect(s, limit, 13, v)))

value_loop(s, limit, start, st) == value_turn(s, limit, start, Ranger_value(s, limit, st))

value_from(s, limit, st) ==
    IF st.err # "" THEN st ELSE value_loop(s, limit, st.count + 1, st)

\* Reader::read_header_value under the limit of its Ranger.
Reader_read_header_value(s, limit) == value_from(s, limit, Ranger_skip_sp(s, limit, Ranger_new))

\* Reader::header_value(name, limit) under the limit of its Ranger: the value
\* is read and counted before the summary takes the header.
call_header_value(s, limit, name) ==
    LET r == Reader_read_header_value(s, limit) IN
    IF r.err # "" THEN Returned(r.err, 0, 0, FALSE, <<>>)
    ELSE IF process_header(HeaderSummary_new, name, SubSeq(s, r.from, r.to)).err # ""
    THEN Returned("InvalidInput", r.count, r.count, FALSE, <<>>)
    ELSE Returned("", r.count, r.count, FALSE, <<name, SubSeq(s, r.from, r.to)>>)

\* Reader::skip_header_value under the limit of its Ranger.
call_skip_header_value(s, limit) ==
    LET r == Reader_read_header_value(s, limit) IN
    IF r.err # "" THEN Returned(r.err, 0, 0, FALSE, <<>>)
    ELSE Returned("", r.count, r.count, FALSE, <<>>)

ReaderOps == {"request_line", "status_line", "header_name", "header_value",
              "skip_header_value"}

\* The call op on the bytes s under the limit of its Ranger.
call_of(op, s, limit, name) ==
    CASE op = "request_line" -> call_request_line(s, limit)
      [] op = "status_line" -> call_status_line(s, limit)
      [] op = "header_name" -> call_header_name(s, limit)
      [] op = "header_value" -> call_header_value(s, limit, name)
      [] OTHER -> call_skip_header_value(s, limit)

\* The bytes the Writer makes of the lines items.
RECURSIVE Written(_)
Written(items) ==
    IF items = <<>> THEN Writer_new
    ELSE Writer_item(Written(SubSeq(items, 1, Len(items) - 1)), items[Len(items)])

NoCall ==
    [op |-> "none", at |-> 0, limit |-> 0, ranger |-> 0, need |-> 0,
     err |-> "", count |-> 0, counted |-> 0, end |-> FALSE, fields |-> <<>>]

CodecIdle ==
    /\ k_pc = "idle"
    /\ k_wire = <<>>
    /\ k_items = <<>>
    /\ k_limit = None
    /\ k_count = 0
    /\ k_consumed = 0
    /\ k_call = NoCall

\* Writer::new
CodecInit ==
    /\ k_pc = "writing"
    /\ k_wire = Writer_new
    /\ k_items = <<>>
    /\ k_limit = None
    /\ k_count = 0
    /\ k_consumed = 0
    /\ k_call = NoCall

\* One line more from the Writer: any line first, a few header lines after it.
k_write(item) ==
    /\ k_pc = "writing"
    /\ Len(k_items) < MaxItems
    /\ k_items # <<>> => item \in LaterItems
    /\ k_items' = Append(k_items, item)
    /\ k_wire' = Writer_item(k_wire, item)
    /\ UNCHANGED <<k_pc, k_limit, k_count, k_consumed, k_call>>
    /\ UNCHANGED <<cacheVars, connectVars, readerVars, routeVars, handlerVars, watchVars, chanVars, streamVars>>

\* The bytes of the first line of s, its CRLF included; 0 without a line end.
line_end(s) == FirstOf(s, 1, {10})

\* The limits tried on the bytes s: around the end of the first line, and big.
LimitsAt(s) ==
    {n \in 0..BigLimit : n \in {line_end(s) - 1, line_end(s), line_end(s) + 1}} \cup {BigLimit}

\* Writer::into_bytes, and Reader::new(reader, limit) on the bytes.
k_new_reader(limit) ==
    /\ k_pc = "writing"
    /\ k_items # <<>>
    /\ k_pc' = "reading"
    /\ k_limit' = limit
    /\ k_count' = 0
    /\ UNCHANGED <<k_wire, k_items, k_consumed, k_call>>
    /\ UNCHANGED <<cacheVars, connectVars, readerVars, routeVars, handlerVars, watchVars, chanVars, streamVars>>

\* What k_call holds of the call op made with limit at byte at of the line.
call_record(op, at, limit, ranger, need, r) ==
    [op |-> op, at |-> at, limit |-> limit, ranger |-> ranger, need |-> need,
     err |-> r.err, count |-> r.count, counted |-> r.counted, end |-> r.end,
     fields |-> r.fields]

\* The bytes the call would consume were there no limit, -1 if it fails anyway.
need_of(r) == IF r.err = "" THEN r.count ELSE -1

\* One Reader call, whole: the Ranger is made under both limits, the bytes are
\* consumed and Reader.count moves on; an error ends the reading.
k_returned(op, at, limit, ranger, need, r) ==
    /\ k_call' = call_record(op, at, limit, ranger, need, r)
    /\ k_wire' = SubSeq(k_wire, r.count + 1, Len(k_wire))
    /\ k_consumed' = k_consumed + r.count
    /\ k_count' = k_count + r.counted
    /\ k_pc' = IF r.err = "" THEN "reading" ELSE "failed"
    /\ UNCHANGED <<k_items, k_limit>>
    /\ UNCHANGED <<cacheVars, connectVars, readerVars, routeVars, handlerVars, watchVars, chanVars, streamVars>>

k_call_with(op, at, limit, ranger, name) ==
    k_returned(op, at, limit, ranger, need_of(call_of(op, k_wire, BigLimit, name)),
               call_of(op, k_wire, ranger, name))

\* Reader::request_line(limit), the Reader's first call.
k_request_line(limit) ==
    /\ k_pc = "reading"
    /\ k_call.op = "none"
    /\ k_call_with("request_line", k_consumed, limit,
                   Reader_ranger(limit, k_limit, k_count), <<>>)

\* Reader::status_line(limit), the Reader's first call.
k_status_line(limit) ==
    /\ k_pc = "reading"
    /\ k_call.op = "none"
    /\ k_call_with("status_line", k_consumed, limit,
                   Reader_ranger(limit, k_limit, k_count), <<>>)

\* Reader::header_name()
k_header_name ==
    /\ k_pc = "reading"
    /\ k_call_with("header_name", k_consumed, HeaderNameLimit,
                   Reader_ranger(HeaderNameLimit, k_limit, k_count), <<>>)

\* Is the call made last a header_name that returned a name?
named == k_call.op = "header_name" /\ k_call.err = "" /\ ~k_call.end

\* Reader::header_value(name, limit) with the name header_name returned.
k_header_value(limit) ==
    /\ k_pc = "reading"
    /\ named
    /\ k_call_with("header_value", k_call.at, limit,
                   Reader_ranger(limit, k_limit, k_count), k_call.fields[1])

\* Reader::skip_header_value(limit) after header_name returned a name.
k_skip_header_value(limit) ==
    /\ k_pc = "reading"
    /\ named
    /\ k_call_with("skip_header_value", k_call.at, limit,
                   Reader_ranger(limit, k_limit, k_count), <<>>)

\* The limits a Reader is created with.
ReaderLimits(s) == {None} \cup {Some(n) : n \in {line_end(s), Len(s)}}

\* The bytes a peer may send as a first line: a digit, space, tab, CR and LF.
WireBytes == {50, 32, 9, 13, 10}

\* The longest input fed to a first-line call.
MaxWire == 6

Wires == UNION {[1..n -> WireBytes] : n \in 0..MaxWire}

\* Reader::new(reader, None) on a reader that holds the bytes of a peer.
LineInit ==
    /\ k_pc = "reading"
    /\ k_wire \in Wires
    /\ k_items = <<>>
    /\ k_limit = None
    /\ k_count = 0
    /\ k_consumed = 0
    /\ k_call = NoCall

\* The limits tried on the bytes s: around their end.
LineLimits(s) == {n \in 0..(Len(s) + 1) : n >= Len(s) - 2}

\* Reader::request_line and Reader::status_line on the bytes of a peer.
LineNext ==
    \/ \E limit \in LineLimits(k_wire) : k_request_line(limit)
    \/ \E limit \in LineLimits(k_wire) : k_status_line(limit)

CodecNext ==
    \/ \E item \in Items : k_write(item)
    \/ \E limit \in ReaderLimits(k_wire) : k_new_reader(limit)
    \/ \E limit \in LimitsAt(k_wire) : k_request_line(limit)
    \/ \E limit \in LimitsAt(k_wire) : k_status_line(limit)
    \/ k_header_name
    \/ \E limit \in LimitsAt(k_wire) : k_header_value(limit)
    \/ \E limit \in LimitsAt(k_wire) : k_skip_header_value(limit)



-----------------------------------------------------------------------------
(* The watch channel: KubeWatcher::run_once assembling and publishing on    *)
(* one side (src/main.rs), the TLS callbacks of build_server_ssl_context    *)
(* looking hosts up on the other. A HostConfig lives behind an Arc: heap    *)
(* maps each live Arc to the HostConfig it points to.                       *)

\* A rule for c with the any path alone, TLS for c, secure-backends and http2.
ing_h2 ==
    [key |-> 1, has_spec |-> TRUE, default_backend |-> None,
     tls |-> <<[hosts |-> {host_c}, secret_name |-> Some("sk")]>>,
     annotations |-> Some((ann_ik("secure-backends") :> "true")
                          @@ (ann_ik("http2") :> "true")),
     rules |-> <<[host |-> Some(host_c), http |-> Some(<<raw_any>>)]>>]
\* The same without http2.
ing_h1 ==
    [key |-> 1, has_spec |-> TRUE, default_backend |-> None,
     tls |-> <<[hosts |-> {host_c}, secret_name |-> Some("sk")]>>,
     annotations |-> Some(ann_ik("secure-backends") :> "true"),
     rules |-> <<[host |-> Some(host_c), http |-> Some(<<raw_any>>)]>>]
\* Two rules for c, the any path and an exact path, with TLS, secure-backends
\* and http2.
ing_mixed ==
    [key |-> 1, has_spec |-> TRUE, default_backend |-> None,
     tls |-> <<[hosts |-> {host_c}, secret_name |-> Some("sk")]>>,
     annotations |-> Some((ann_ik("secure-backends") :> "true")
                          @@ (ann_ik("http2") :> "true")),
     rules |-> <<[host |-> Some(host_c), http |-> Some(<<raw_any>>)],
                 [host |-> Some(host_c), http |-> Some(<<raw_exact_a>>)]>>]

ChanIngresses == {ing_h2, ing_h1, ing_mixed}
ChanSecrets == {sec_ok}

\* The server names a client sends, if any, and the protocols it offers.
ServerNames == {None, Some(host_c)}
ClientProtos == {<<"h2", "http/1.1">>, <<"http/1.1">>, <<"h2">>}

\* ALPN_H1 and ALPN_H2_H1, as the lists of protocol names they encode.
ALPN_H1 == <<"http/1.1">>
ALPN_H2_H1 == <<"h2", "http/1.1">>

\* HostConfig::is_any_only
is_any_only(cfg) == cfg.exact_matches = <<>> /\ cfg.prefix_matches = <<>>

\* is_h2_ready that does not look at the exact and prefix matches.
is_h2_ready_any(cfg) ==
    cfg.any_match # None /\ cfg.any_match[1].opts.secure_backends
    /\ cfg.any_match[1].opts.http2

\* HostConfig::is_h2_ready
is_h2_ready(cfg) ==
    IF ~is_any_only(cfg) THEN FALSE
    ELSE IF cfg.any_match = None THEN FALSE
    ELSE cfg.any_match[1].opts.secure_backends /\ cfg.any_match[1].opts.http2

\* ssl::select_next_proto: the first protocol of the server's list that the
\* client offers too.
select_next_proto(server, client) ==
    LET I == {i \in 1..Len(server) : \E j \in 1..Len(client) : client[j] = server[i]}
    IN  IF I = {} THEN None ELSE Some(server[Least(I)])

\* Arc::new handing out an Arc that may be in use.
Arc_new_first(h) == 1

\* Arc::new: an Arc no one holds yet.
Arc_new(h) == Least({i \in 1..(Cardinality(DOMAIN h) + 1) : i \notin DOMAIN h})

\* The Arcs a map of hosts holds.
arcs_of(hosts) == {hosts[h] : h \in DOMAIN hosts}

\* Drop for Arc: what no one holds any more is freed.
arc_drop(h, held) == [i \in DOMAIN h \cap held |-> h[i]]

\* The rules `for (key, ing) in &self.state.ingresses { for rule in &ing.rules`
\* goes through, in order, each with the options of its ingress.
RECURSIVE rules_from(_, _)
rules_from(ings, keys) ==
    IF keys = {} THEN <<>>
    ELSE [i \in 1..Len(ings[Least(keys)].rules) |->
             [rule |-> ings[Least(keys)].rules[i], opts |-> ings[Least(keys)].endpoint_opts]]
         \o rules_from(ings, keys \ {Least(keys)})

NoAnswer == [sni |-> "", offer |-> <<>>, alpn |-> ""]

\* KubeWatcher::new with its channel, and no handshake running.
ChanNew ==
    /\ c_ingresses = <<>>
    /\ c_ings_ready = FALSE
    /\ c_secrets = <<>>
    /\ c_secrets_ready = FALSE
    /\ c_streams = [k \in Kinds |-> "new"]
    /\ c_hosts = <<>>
    /\ c_todo = <<>>
    /\ chan = <<>>
    /\ heap = <<>>
    /\ snap = <<>>
    /\ t_pc = "idle"
    /\ t_name = None
    /\ t_ref = None
    /\ t_seen = None
    /\ t_crossed = FALSE
    /\ t_out = NoAnswer

ChanInit == c_pc = "run_once" /\ ChanNew

ChanIdle == c_pc = "idle" /\ ChanNew

tlsVars == <<t_pc, t_name, t_ref, t_seen, t_crossed, t_out>>

\* The head of run_once (lines 771-778).
c_run_once ==
    /\ c_pc = "run_once"
    /\ c_pc' = "ingest"
    /\ c_streams' = [k \in Kinds |-> "new"]
    /\ c_ingresses' = <<>>
    /\ c_ings_ready' = FALSE
    /\ c_secrets' = <<>>
    /\ c_secrets_ready' = FALSE
    /\ UNCHANGED <<c_hosts, c_todo, chan, heap, snap, tlsVars>>
    /\ UNCHANGED <<cacheVars, connectVars, readerVars, routeVars, handlerVars, watchVars, codecVars, streamVars>>

\* The head of a turn of run_once's loop (lines 780-797): an event of one
\* stream is ingested; when both kinds are ready the assembly starts on new
\* Hosts.
c_ingest(which, type, obj) ==
    /\ c_pc = "ingest"
    /\ stream_allows(c_streams[which], type)
    /\ c_streams' = [c_streams EXCEPT ![which] = stream_after(type)]
    /\ IF which = "ing"
       THEN /\ obj \in ChanIngresses
            /\ c_ingresses' = ingest_event(c_ingresses, type, obj).map
            /\ c_ings_ready' = ingest_event(c_ingresses, type, obj).ready
            /\ UNCHANGED <<c_secrets, c_secrets_ready>>
       ELSE /\ obj \in ChanSecrets
            /\ c_secrets' = ingest_secret_event(c_secrets, type, obj).map
            /\ c_secrets_ready' = ingest_secret_event(c_secrets, type, obj).ready
            /\ UNCHANGED <<c_ingresses, c_ings_ready>>
    /\ IF c_ings_ready' /\ c_secrets_ready'
       THEN /\ c_pc' = "assemble"
            /\ c_todo' = rules_from(c_ingresses', DOMAIN c_ingresses')
       ELSE UNCHANGED <<c_pc, c_todo>>
    /\ UNCHANGED <<c_hosts, chan, heap, snap, tlsVars>>
    /\ UNCHANGED <<cacheVars, connectVars, readerVars, routeVars, handlerVars, watchVars, codecVars, streamVars>>

\* The HostConfig the body of `for rule in &ing.rules` builds (lines 801-832):
\* a clone of the one the local hosts hold for the rule's host, or the default,
\* with the rule's TLS and matches.
rule_config(hosts, h, todo, secs) ==
    apply_matches(with_tls(IF todo.rule.host \in DOMAIN hosts
                           THEN h[hosts[todo.rule.host]] ELSE HostConfig_new,
                           todo.rule, secs),
                  todo.rule.matches, todo.opts)

\* One rule of the assembly (lines 800-835): the HostConfig goes behind a new
\* Arc into the local hosts, and the Arc it replaces there is dropped.
c_rule ==
    /\ c_pc = "assemble"
    /\ c_todo # <<>>
    /\ c_hosts' = map_insert(c_hosts, Head(c_todo).rule.host, Arc_new(heap))
    /\ heap' = arc_drop(map_insert(heap, Arc_new(heap),
                                   rule_config(c_hosts, heap, Head(c_todo), c_secrets)),
                        arcs_of(c_hosts') \cup arcs_of(chan) \cup Opt_set(t_ref))
    /\ c_todo' = Tail(c_todo)
    /\ UNCHANGED <<c_pc, c_ingresses, c_ings_ready, c_secrets, c_secrets_ready, c_streams,
                   chan, snap, tlsVars>>
    /\ UNCHANGED <<cacheVars, connectVars, readerVars, routeVars, handlerVars, watchVars, codecVars, streamVars>>

\* self.tx.send_replace(Arc::new(hosts)) (line 838): the channel holds the new
\* Hosts, the ones it held are dropped.
c_send ==
    /\ c_pc = "assemble"
    /\ c_todo = <<>>
    /\ c_pc' = "ingest"
    /\ chan' = c_hosts
    /\ c_hosts' = <<>>
    /\ snap' = assemble(c_ingresses, c_secrets)
    /\ heap' = arc_drop(heap, arcs_of(chan') \cup Opt_set(t_ref))
    /\ t_crossed' = (t_ref # None)
    /\ UNCHANGED <<c_ingresses, c_ings_ready, c_secrets, c_secrets_ready, c_streams, c_todo,
                   t_pc, t_name, t_ref, t_seen, t_out>>
    /\ UNCHANGED <<cacheVars, connectVars, readerVars, routeVars, handlerVars, watchVars, codecVars, streamVars>>

asmVars == <<c_pc, c_ingresses, c_ings_ready, c_secrets, c_secrets_ready, c_streams,
             c_hosts, c_todo, chan, snap>>

\* The callback is over: the handshake has its answer, the Arc is dropped.
t_answer(next, answer) ==
    /\ t_pc' = next
    /\ t_out' = answer
    /\ t_ref' = None
    /\ t_crossed' = FALSE
    /\ heap' = arc_drop(heap, arcs_of(c_hosts) \cup arcs_of(chan))
    /\ UNCHANGED <<t_seen, asmVars>>
    /\ UNCHANGED <<cacheVars, connectVars, readerVars, routeVars, handlerVars, watchVars, codecVars, streamVars>>

\* Context::host in a callback: the Arc of the host in the channel's Hosts.
t_lookup(held, answer) ==
    /\ t_pc' = held
    /\ t_out' = answer
    /\ t_ref' = Context_host(chan, t_name'[1])
    /\ t_seen' = Context_host(snap, t_name'[1])
    /\ t_crossed' = FALSE
    /\ UNCHANGED <<heap, asmVars>>
    /\ UNCHANGED <<cacheVars, connectVars, readerVars, routeVars, handlerVars, watchVars, codecVars, streamVars>>

\* A client starts a TLS handshake (handle_https_connection, line 194) with
\* the server name, if any: the servername callback up to ctx().host (lines
\* 212-217).
t_sni_lookup(name) ==
    /\ t_pc \in {"idle", "done"}
    /\ t_name' = name
    /\ IF name = None
       THEN /\ t_seen' = None
            /\ t_pc' = "done"
            /\ t_out' = [NoAnswer EXCEPT !.sni = "fatal"]
            /\ UNCHANGED <<t_ref, t_crossed, heap, asmVars>>
            /\ UNCHANGED <<cacheVars, connectVars, readerVars, routeVars, handlerVars, watchVars, codecVars, streamVars>>
       ELSE t_lookup("sni_held", NoAnswer)

\* The rest of the servername callback (lines 217-231); installs tells whether
\* the connection takes the key and the certificate.
t_sni_use(installs) ==
    /\ t_pc = "sni_held"
    /\ UNCHANGED t_name
    /\ IF t_ref = None THEN t_answer("done", [t_out EXCEPT !.sni = "fatal"])
       ELSE IF heap[t_ref[1]].tls_key_cert = None \/ ~installs
       THEN t_answer("done", [t_out EXCEPT !.sni = "fatal"])
       ELSE t_answer("alpn", [t_out EXCEPT !.sni = "ok"])

\* The ALPN callback up to ctx().host (lines 235-238).
t_alpn_lookup ==
    /\ t_pc = "alpn"
    /\ UNCHANGED t_name
    /\ t_lookup("alpn_held", t_out)

\* The protocols the server offers for the host (lines 242-246).
server_protos(cfg) == IF is_h2_ready(cfg) THEN ALPN_H2_H1 ELSE ALPN_H1

\* The answer of the rest of the ALPN callback (lines 238-248).
alpn_answer(out, cfg, client) ==
    [out EXCEPT !.offer = server_protos(cfg),
                !.alpn = IF select_next_proto(server_protos(cfg), client) = None
                         THEN "fatal" ELSE select_next_proto(server_protos(cfg), client)[1]]

\* The rest of the ALPN callback (lines 238-248) for the protocols the client
\* offers.
t_alpn_use(client_protos) ==
    /\ t_pc = "alpn_held"
    /\ UNCHANGED t_name
    /\ IF t_ref = None THEN t_answer("done", [t_out EXCEPT !.alpn = "fatal"])
       ELSE t_answer("done", alpn_answer(t_out, heap[t_ref[1]], client_protos))

ChanNext ==
    \/ c_run_once
    \/ \E which \in Kinds, type \in EventTypes, obj \in ChanIngresses \cup ChanSecrets :
           c_ingest(which, type, obj)
    \/ c_rule
    \/ c_send
    \/ \E name \in ServerNames : t_sni_lookup(name)
    \/ \E installs \in BOOLEAN : t_sni_use(installs)
    \/ t_alpn_lookup
    \/ \E client_protos \in ClientProtos : t_alpn_use(client_protos)

-----------------------------------------------------------------------------
(* The bytes of a client connection: handle_http1_connection and            *)
(* forward_to_backend (src/main.rs) as readers of the client's and the      *)
(* backend's streams. A header block is one element of a stream, 100 when   *)
(* it leaves the body's length unknown and 200 + n when it gives n; every   *)
(* other element is a byte.                                                *)

\* The longest stream a client sends.
MaxStream == 4

ClientElements == {100, 200, 201, 202, 1}

ClientStreams == UNION {[1..n -> ClientElements] : n \in 0..MaxStream}

\* What a backend sends in answer to a request: a header block and a body,
\* then it closes.
Responses ==
    {<<h>> \o body : h \in {100, 200, 201}, body \in {<<>>, <<1>>, <<1, 2>>}}

is_head(e) == e >= 100

\* Reader.content_length of a header block.
declared(e) == IF e = 100 THEN None ELSE Some(e - 200)

\* A Take that never ends.
Take_unlimited(limit, taken) == TRUE

\* AsyncReadExt::take(len) after taken bytes: is the limit not reached? A
\* reader without take has no limit.
Take_has_more(limit, taken) == IF limit = None THEN TRUE ELSE taken < limit[1]

FrameIdle ==
    /\ x_pc = "idle"
    /\ x_client = <<>>
    /\ x_pos = 0
    /\ x_hdr_end = 0
    /\ x_req_len = None
    /\ x_to_backend = <<>>
    /\ x_req_st = "run"
    /\ x_resp = <<>>
    /\ x_rpos = 0
    /\ x_hdr_st = "run"
    /\ x_resp_len = None
    /\ x_to_client = <<>>
    /\ x_resp_st = "run"
    /\ x_result = "unset"
    /\ x_parsed = <<>>

\* A connection accepted, and what its client is going to send (lines 294-295).
FrameInit ==
    /\ x_pc = "fill_buf"
    /\ x_client \in ClientStreams
    /\ x_pos = 0
    /\ x_hdr_end = 0
    /\ x_req_len = None
    /\ x_to_backend = <<>>
    /\ x_req_st = "run"
    /\ x_resp = <<>>
    /\ x_rpos = 0
    /\ x_hdr_st = "run"
    /\ x_resp_len = None
    /\ x_to_client = <<>>
    /\ x_resp_st = "run"
    /\ x_result = "unset"
    /\ x_parsed = <<>>

exchangeVars == <<x_hdr_end, x_req_len, x_to_backend, x_req_st, x_resp, x_rpos, x_hdr_st,
                  x_resp_len, x_to_client, x_resp_st, x_result>>

\* read.fill_buf() at the top of 'main (lines 298-309): the end of the
\* client's stream or a read error ends the handler.
x_fill_buf(ok) ==
    /\ x_pc = "fill_buf"
    /\ x_pc' = IF ok /\ x_pos < Len(x_client) THEN "request" ELSE "closed"
    /\ UNCHANGED <<x_client, x_pos, x_parsed, exchangeVars>>
    /\ UNCHANGED <<coreVars, copyVars, h2Vars>>

\* The request's header (lines 311-410): the Reader reads the request line
\* from the byte the BufReader is at; a header block read, routed and sent to
\* a backend starts the forward, and what is no header block, or one that is
\* replied to by the handler, ends it.
x_request(routed, resp) ==
    /\ x_pc = "request"
    /\ x_parsed' = Append(x_parsed, [at |-> x_pos + 1, len |-> declared(x_client[x_pos + 1])])
    /\ IF is_head(x_client[x_pos + 1]) /\ routed
       THEN /\ x_pos' = x_pos + 1
            /\ x_hdr_end' = x_pos + 1
            /\ x_req_len' = declared(x_client[x_pos + 1])
            /\ x_to_backend' = <<>>
            /\ x_req_st' = "run"
            /\ x_resp' = resp
            /\ x_rpos' = 0
            /\ x_hdr_st' = "run"
            /\ x_resp_len' = None
            /\ x_to_client' = <<>>
            /\ x_resp_st' = "run"
            /\ x_result' = "unset"
            /\ x_pc' = "select"
       ELSE /\ x_pc' = "closed"
            /\ UNCHANGED <<x_pos, exchangeVars>>
    /\ UNCHANGED x_client
    /\ UNCHANGED <<coreVars, copyVars, h2Vars>>

\* copy_req moving one byte more of the client's BufReader, under the take
\* of the request's length when it is known (lines 414-419, 606).
x_copy_req_byte ==
    /\ x_pc \in {"select", "copy"}
    /\ x_req_st = "run"
    /\ Take_has_more(x_req_len, Len(x_to_backend))
    /\ x_pos < Len(x_client)
    /\ x_to_backend' = Append(x_to_backend, x_client[x_pos + 1])
    /\ x_pos' = x_pos + 1
    /\ UNCHANGED <<x_pc, x_client, x_parsed, x_hdr_end, x_req_len, x_req_st, x_resp, x_rpos,
                   x_hdr_st, x_resp_len, x_to_client, x_resp_st, x_result>>
    /\ UNCHANGED <<coreVars, copyVars, h2Vars>>

\* copy_req ending (lines 618-625, 669-698): at the end of the take or of the
\* client's stream, or with an error, which ends the forward.
x_copy_req_end(ok) ==
    /\ x_pc \in {"select", "copy"}
    /\ x_req_st = "run"
    /\ IF ~ok
       THEN /\ x_result' = "false"
            /\ x_pc' = "after"
            /\ UNCHANGED x_req_st
       ELSE /\ ~Take_has_more(x_req_len, Len(x_to_backend)) \/ x_pos = Len(x_client)
            /\ x_req_st' = "done"
            /\ IF x_resp_st = "done"
               THEN /\ x_result' = forward_result(TRUE, TRUE, x_resp_len)
                    /\ x_pc' = "after"
               ELSE UNCHANGED <<x_result, x_pc>>
    /\ UNCHANGED <<x_client, x_pos, x_parsed, x_hdr_end, x_req_len, x_to_backend, x_resp,
                   x_rpos, x_hdr_st, x_resp_len, x_to_client, x_resp_st>>
    /\ UNCHANGED <<coreVars, copyVars, h2Vars>>

\* copy_response_header ending (lines 612-636, 704-730): the header block of
\* the response is read and its length kept, or the forward ends.
x_hdr_done(ok) ==
    /\ x_pc = "select"
    /\ IF ok
       THEN /\ x_rpos' = 1
            /\ x_hdr_st' = "done"
            /\ x_resp_len' = declared(x_resp[1])
            /\ x_pc' = "copy"
            /\ UNCHANGED x_result
       ELSE /\ x_result' = "false"
            /\ x_pc' = "after"
            /\ UNCHANGED <<x_rpos, x_hdr_st, x_resp_len>>
    /\ UNCHANGED <<x_client, x_pos, x_parsed, x_hdr_end, x_req_len, x_to_backend, x_req_st,
                   x_resp, x_to_client, x_resp_st>>
    /\ UNCHANGED <<coreVars, copyVars, h2Vars>>

\* copy_resp moving one byte more of the backend's BufReader, under the take
\* of the response's length when it is known (lines 638-651).
x_copy_resp_byte ==
    /\ x_pc = "copy"
    /\ x_resp_st = "run"
    /\ Take_has_more(x_resp_len, Len(x_to_client))
    /\ x_rpos < Len(x_resp)
    /\ x_to_client' = Append(x_to_client, x_resp[x_rpos + 1])
    /\ x_rpos' = x_rpos + 1
    /\ UNCHANGED <<x_pc, x_client, x_pos, x_parsed, x_hdr_end, x_req_len, x_to_backend,
                   x_req_st, x_resp, x_hdr_st, x_resp_len, x_resp_st, x_result>>
    /\ UNCHANGED <<coreVars, copyVars, h2Vars>>

\* copy_resp ending (copy_req_and_resp, lines 658-701): at the end of the
\* take or of the backend's stream, or with an error.
x_copy_resp_end(ok) ==
    /\ x_pc = "copy"
    /\ x_resp_st = "run"
    /\ IF ~ok
       THEN /\ x_result' = "false"
            /\ x_pc' = "after"
            /\ UNCHANGED x_resp_st
       ELSE /\ ~Take_has_more(x_resp_len, Len(x_to_client)) \/ x_rpos = Len(x_resp)
            /\ x_resp_st' = "done"
            /\ IF x_req_st = "done"
               THEN /\ x_result' = forward_result(TRUE, TRUE, x_resp_len)
                    /\ x_pc' = "after"
               ELSE UNCHANGED <<x_result, x_pc>>
    /\ UNCHANGED <<x_client, x_pos, x_parsed, x_hdr_end, x_req_len, x_to_backend, x_req_st,
                   x_resp, x_rpos, x_hdr_st, x_resp_len, x_to_client>>
    /\ UNCHANGED <<coreVars, copyVars, h2Vars>>

\* Lines 422-428: the connection serves another request when the forward can
\* be reused and the request's length was known.
x_after ==
    /\ x_pc = "after"
    /\ x_pc' = IF x_result = "true" /\ x_req_len # None THEN "fill_buf" ELSE "closed"
    /\ UNCHANGED <<x_client, x_pos, x_parsed, exchangeVars>>
    /\ UNCHANGED <<coreVars, copyVars, h2Vars>>

FrameNext ==
    \/ \E ok \in BOOLEAN : x_fill_buf(ok)
    \/ \E routed \in BOOLEAN, resp \in Responses : x_request(routed, resp)
    \/ x_copy_req_byte
    \/ \E ok \in BOOLEAN : x_copy_req_end(ok)
    \/ \E ok \in BOOLEAN : x_hdr_done(ok)
    \/ x_copy_resp_byte
    \/ \E ok \in BOOLEAN : x_copy_resp_end(ok)
    \/ x_after

-----------------------------------------------------------------------------
(* copy_response_header (src/main.rs) reading the backend's response header *)
(* through CopyingBytePeekRead (src/http1.rs), byte by byte.                *)

\* "H 200 K\r\n", "H 2x0 K\r\n", "A: b\r\n", "A: b\r\n c\r\n", "\r\n", "xy"
y_status == <<72, 32, 50, 48, 48, 32, 75, 13, 10>>
y_status_bad == <<72, 32, 50, 120, 48, 32, 75, 13, 10>>
y_header == <<65, 58, 32, 98, 13, 10>>
y_folded == <<65, 58, 32, 98, 13, 10, 32, 99, 13, 10>>
y_crlf == <<13, 10>>
y_body == <<120, 121>>

\* What a backend sends: a header block with or without a body after it, one
\* that is cut, and one whose status code is no number.
BackendWires ==
    { y_status \o y_header \o y_crlf \o y_body,
      y_status \o y_folded \o y_crlf \o y_body,
      y_status \o y_crlf,
      y_status \o y_crlf \o y_body,
      y_status \o y_header,
      y_status_bad \o y_crlf \o y_body }

\* The bytes of s the header loop of copy_response_header consumes when it
\* has consumed at of them, -1 when a Reader call fails.
RECURSIVE headers_end(_, _)

header_end_after(s, at, n, v) ==
    IF n.err # "" THEN -1
    ELSE IF n.end THEN at + n.count
    ELSE IF v.err # "" THEN -1
    ELSE headers_end(s, at + n.count + v.count)

header_end_named(s, at, n) ==
    header_end_after(s, at, n,
        IF n.err # "" \/ n.end THEN n
        ELSE call_header_value(SubSeq(s, at + n.count + 1, Len(s)), MaxHeader, n.fields[1]))

headers_end(s, at) ==
    header_end_named(s, at, call_header_name(SubSeq(s, at + 1, Len(s)), HeaderNameLimit))

\* The limit of the status line: reader.status_line(512).
StatusLineLimit == 512

\* The bytes of s copy_response_header's Reader consumes: the status line
\* and the header block, -1 when it fails.
response_header_end(s) ==
    IF call_status_line(s, StatusLineLimit).err # "" THEN -1
    ELSE headers_end(s, call_status_line(s, StatusLineLimit).count)

CopyIdle ==
    /\ y_pc = "idle"
    /\ y_wire = <<>>
    /\ y_end = 0
    /\ y_src = <<>>
    /\ y_buf = <<>>
    /\ y_read_buf = <<>>
    /\ y_out = <<>>
    /\ y_consumed = <<>>

\* CopyingBytePeekRead::new on the backend's BufReader.
CopyInit ==
    /\ y_pc = "parse"
    /\ y_wire \in BackendWires
    /\ y_end = response_header_end(y_wire)
    /\ y_src = y_wire
    /\ y_buf = <<>>
    /\ y_read_buf = <<>>
    /\ y_out = <<>>
    /\ y_consumed = <<>>

\* flush that writes nothing.
flush_nothing(out, read_buf) == out

\* CopyingBytePeekRead::flush: the writer after write_all(&read_buf).
flush(out, read_buf) == out \o read_buf

\* CopyingBytePeekRead::peek_byte: with bytes in the BufReader's buffer
\* nothing moves; with none read_buf is flushed and fill_buf reads n bytes
\* more, none at the backend's EOF. wok: does write_all succeed?
\* [err, buf, src, read_buf, out]
peek_byte(n, wok) ==
    IF y_buf # <<>>
    THEN [err |-> "", buf |-> y_buf, src |-> y_src, read_buf |-> y_read_buf, out |-> y_out]
    ELSE IF y_read_buf # <<>> /\ ~wok
    THEN [err |-> "IO", buf |-> y_buf, src |-> y_src, read_buf |-> y_read_buf, out |-> y_out]
    ELSE [err |-> IF y_src = <<>> THEN "InvalidInput" ELSE "",
          buf |-> SubSeq(y_src, 1, n), src |-> SubSeq(y_src, n + 1, Len(y_src)),
          read_buf |-> <<>>, out |-> flush(y_out, y_read_buf)]

\* May the Reader make one call more? It has bytes of the header to consume,
\* or the call that fails still to make.
parsing == y_pc = "parse" /\ Len(y_consumed) # y_end

\* The Reader peeks (Ranger::peek) where the buffer is empty.
y_peek(n, wok, p) ==
    /\ parsing
    /\ y_buf = <<>>
    /\ n \in 1..Len(y_src) \/ (n = 0 /\ y_src = <<>>)
    /\ y_pc' = IF p.err = "" THEN "parse" ELSE "err"
    /\ y_buf' = p.buf
    /\ y_src' = p.src
    /\ y_read_buf' = p.read_buf
    /\ y_out' = p.out
    /\ UNCHANGED <<y_wire, y_end, y_consumed>>
    /\ UNCHANGED <<coreVars, frameVars, h2Vars>>

\* The Reader reads (Ranger::read): CopyingBytePeekRead::read_byte peeks,
\* consumes the byte and pushes it on read_buf.
y_read(n, wok, p) ==
    /\ parsing
    /\ IF y_buf # <<>> THEN n = 0 ELSE n \in 1..Len(y_src) \/ (n = 0 /\ y_src = <<>>)
    /\ IF p.err # ""
       THEN /\ y_pc' = "err"
            /\ y_buf' = p.buf
            /\ y_read_buf' = p.read_buf
            /\ UNCHANGED y_consumed
       ELSE /\ y_pc' = "parse"
            /\ y_buf' = Tail(p.buf)
            /\ y_read_buf' = Append(p.read_buf, Head(p.buf))
            /\ y_consumed' = Append(y_consumed, Head(p.buf))
    /\ y_src' = p.src
    /\ y_out' = p.out
    /\ UNCHANGED <<y_wire, y_end>>
    /\ UNCHANGED <<coreVars, frameVars, h2Vars>>

\* A Reader call fails on what it consumed: copy_response_header returns the
\* error (lines 717-724).
y_fail ==
    /\ y_pc = "parse"
    /\ y_end = -1
    /\ y_pc' = "err"
    /\ UNCHANGED <<y_wire, y_end, y_src, y_buf, y_read_buf, y_out, y_consumed>>
    /\ UNCHANGED <<coreVars, frameVars, h2Vars>>

\* EndOfHeader: cbpr.flush() and the return (lines 726-730).
y_return(wok) ==
    /\ y_pc = "parse"
    /\ Len(y_consumed) = y_end
    /\ IF y_read_buf # <<>> /\ ~wok
       THEN /\ y_pc' = "err"
            /\ UNCHANGED <<y_read_buf, y_out>>
       ELSE /\ y_pc' = "ok"
            /\ y_read_buf' = <<>>
            /\ y_out' = flush(y_out, y_read_buf)
    /\ UNCHANGED <<y_wire, y_end, y_src, y_buf, y_consumed>>
    /\ UNCHANGED <<coreVars, frameVars, h2Vars>>

CopyNext ==
    \/ \E n \in 0..Len(y_src), wok \in BOOLEAN : y_peek(n, wok, peek_byte(n, wok))
    \/ \E n \in 0..Len(y_src), wok \in BOOLEAN : y_read(n, wok, peek_byte(n, wok))
    \/ y_fail
    \/ \E wok \in BOOLEAN : y_return(wok)

-----------------------------------------------------------------------------
(* handle_http2_connection (src/main.rs): a connection whose handshake      *)
(* selected h2 is handed to one backend and copied in both directions with  *)
(* io::copy_bidirectional. The watcher may publish a new snapshot at any    *)
(* time between the handshake and the dispatch.                             *)

\* ALPN_H2, as the list of protocol names it encodes.
ALPN_H2 == <<"h2">>

MaxCopy == 2
\* Bytes of a stream: a letter and a byte no HTTP header holds.
StreamBytes == {80, 0}
CopyStreams == UNION {[1..n -> StreamBytes] : n \in 0..MaxCopy}

\* An Endpoint with the http2 option.
Endpoint_h2(service, secure, http2) ==
    [service |-> service,
     opts |-> [secure_backends |-> secure, ssl_redirect |-> secure, http2 |-> http2]]

\* The HostConfig of an ingress with the any path alone.
cfg_any(ep) == [exact_matches |-> <<>>, prefix_matches |-> <<>>, any_match |-> Some(ep)]

cfg_ready == cfg_any(Endpoint_h2("s1", TRUE, TRUE))
cfg_ready_moved == cfg_any(Endpoint_h2("s2", TRUE, TRUE))
\* The any path without secure-backends and http2.
cfg_plain == cfg_any(Endpoint_h2("s3", FALSE, FALSE))
\* The any path and an exact path.
cfg_mixed ==
    [exact_matches |-> (<<47, 97>> :> Endpoint_h2("s1", TRUE, TRUE)), prefix_matches |-> <<>>,
     any_match |-> Some(Endpoint_h2("s1", TRUE, TRUE))]
\* An exact path alone.
cfg_lost ==
    [exact_matches |-> (<<47, 97>> :> Endpoint_h2("s1", TRUE, TRUE)), prefix_matches |-> <<>>,
     any_match |-> None]

\* The snapshots the watcher publishes for the server name c of the connection.
H2Snapshots ==
    {HostsEmpty} \cup {host_c :> cfg : cfg \in {cfg_ready, cfg_ready_moved, cfg_plain, cfg_mixed, cfg_lost}}

\* The endpoint of lines 530-538 only when the host is still ready for h2.
h2_endpoint_ready(hosts, server_name) ==
    IF Context_host(hosts, server_name) = None THEN None
    ELSE IF ~is_h2_ready(Context_host(hosts, server_name)[1]) THEN None
    ELSE Context_host(hosts, server_name)[1].any_match

\* ctx().host(server_name) and host_cfg.any_match (lines 530-538): the
\* endpoint handle_http2_connection goes on with, None when it returns.
h2_endpoint(hosts, server_name) ==
    IF Context_host(hosts, server_name) = None THEN None
    ELSE Context_host(hosts, server_name)[1].any_match

H2New ==
    /\ d_at = None
    /\ d_dial = None
    /\ d_conn = ""
    /\ d_a_pos = 0
    /\ d_b_pos = 0
    /\ d_to_backend = <<>>
    /\ d_to_client = <<>>
    /\ d_a_to_b = ""
    /\ d_b_to_a = ""
    /\ d_result = ""

\* handle_https_connection matching Some(b"h2") (lines 198-200): the ALPN
\* callback found the host ready for h2 in the snapshot of the handshake.
H2Init ==
    /\ d_pc = "accepted"
    /\ d_chan \in {hosts \in H2Snapshots :
                     /\ Context_host(hosts, host_c) # None
                     /\ is_h2_ready(Context_host(hosts, host_c)[1])}
    /\ d_seen = Context_host(d_chan, host_c)[1]
    /\ d_client \in CopyStreams
    /\ d_server \in CopyStreams
    /\ H2New

H2Idle ==
    /\ d_pc = "idle"
    /\ d_chan = HostsEmpty
    /\ d_seen = HostConfig_default
    /\ d_client = <<>>
    /\ d_server = <<>>
    /\ H2New

\* The watcher publishing a snapshot while the connection lives (line 838).
d_publish(hosts) ==
    /\ d_pc \in {"accepted", "connect", "copy"}
    /\ hosts # d_chan
    /\ d_chan' = hosts
    /\ UNCHANGED <<d_pc, d_seen, d_at, d_dial, d_conn, d_client, d_server, d_a_pos, d_b_pos,
                   d_to_backend, d_to_client, d_a_to_b, d_b_to_a, d_result>>
    /\ UNCHANGED <<coreVars, frameVars, copyVars>>

\* handle_http2_connection up to the call of Backend::connect (lines 527-541).
d_dispatch ==
    /\ d_pc = "accepted"
    /\ d_at' = Some(d_chan)
    /\ IF h2_endpoint(d_chan, host_c) = None
       THEN /\ d_pc' = "returned"
            /\ d_result' = "closed"
            /\ d_dial' = d_dial
       ELSE /\ d_pc' = "connect"
            /\ d_dial' = Some([endpoint |-> h2_endpoint(d_chan, host_c)[1], alpn_protos |-> ALPN_H2])
            /\ d_result' = d_result
    /\ UNCHANGED <<d_chan, d_seen, d_conn, d_client, d_server, d_a_pos, d_b_pos,
                   d_to_backend, d_to_client, d_a_to_b, d_b_to_a>>
    /\ UNCHANGED <<coreVars, frameVars, copyVars>>

\* `let Ok(..) = Backend::connect(endpoint, ALPN_H2).await else { return }`
\* (lines 541-543) and the start of the copy.
d_connect(outcome) ==
    /\ d_pc = "connect"
    /\ d_conn' = outcome
    /\ IF outcome = "Ok"
       THEN /\ d_pc' = "copy"
            /\ d_a_to_b' = "Running"
            /\ d_b_to_a' = "Running"
            /\ d_result' = d_result
       ELSE /\ d_pc' = "returned"
            /\ d_result' = "closed"
            /\ UNCHANGED <<d_a_to_b, d_b_to_a>>
    /\ UNCHANGED <<d_chan, d_seen, d_at, d_dial, d_client, d_server, d_a_pos, d_b_pos,
                   d_to_backend, d_to_client>>
    /\ UNCHANGED <<coreVars, frameVars, copyVars>>

\* io::copy_bidirectional (lines 545-548), one direction moving a byte it
\* read to the other stream.
d_transfer(from_client) ==
    /\ d_pc = "copy"
    /\ IF from_client
       THEN /\ d_a_to_b = "Running"
            /\ d_a_pos < Len(d_client)
            /\ d_a_pos' = d_a_pos + 1
            /\ d_to_backend' = Append(d_to_backend, d_client[d_a_pos + 1])
            /\ UNCHANGED <<d_b_pos, d_to_client>>
       ELSE /\ d_b_to_a = "Running"
            /\ d_b_pos < Len(d_server)
            /\ d_b_pos' = d_b_pos + 1
            /\ d_to_client' = Append(d_to_client, d_server[d_b_pos + 1])
            /\ UNCHANGED <<d_a_pos, d_to_backend>>
    /\ UNCHANGED <<d_pc, d_chan, d_seen, d_at, d_dial, d_conn, d_client, d_server,
                   d_a_to_b, d_b_to_a, d_result>>
    /\ UNCHANGED <<coreVars, frameVars, copyVars>>

\* io::copy_bidirectional, one direction reading the end of its source: the
\* write half of the other stream is shut down and the direction is Done,
\* while the other direction goes on.
d_eof(from_client) ==
    /\ d_pc = "copy"
    /\ IF from_client
       THEN /\ d_a_to_b = "Running"
            /\ d_a_pos = Len(d_client)
            /\ d_a_to_b' = "Done"
            /\ d_b_to_a' = d_b_to_a
       ELSE /\ d_b_to_a = "Running"
            /\ d_b_pos = Len(d_server)
            /\ d_b_to_a' = "Done"
            /\ d_a_to_b' = d_a_to_b
    /\ UNCHANGED <<d_pc, d_chan, d_seen, d_at, d_dial, d_conn, d_client, d_server, d_a_pos, d_b_pos,
                   d_to_backend, d_to_client, d_result>>
    /\ UNCHANGED <<coreVars, frameVars, copyVars>>

\* io::copy_bidirectional returning Ok once both directions are Done, and
\* the handler dropping both streams (lines 545-553).
d_copied ==
    /\ d_pc = "copy"
    /\ d_a_to_b = "Done"
    /\ d_b_to_a = "Done"
    /\ d_pc' = "returned"
    /\ d_result' = "Ok"
    /\ UNCHANGED <<d_chan, d_seen, d_at, d_dial, d_conn, d_client, d_server, d_a_pos, d_b_pos,
                   d_to_backend, d_to_client, d_a_to_b, d_b_to_a>>
    /\ UNCHANGED <<coreVars, frameVars, copyVars>>

\* io::copy_bidirectional returning the error of a read or a write of either
\* direction (lines 550-552).
d_failed ==
    /\ d_pc = "copy"
    /\ d_pc' = "returned"
    /\ d_result' = "Err"
    /\ UNCHANGED <<d_chan, d_seen, d_at, d_dial, d_conn, d_client, d_server, d_a_pos, d_b_pos,
                   d_to_backend, d_to_client, d_a_to_b, d_b_to_a>>
    /\ UNCHANGED <<coreVars, frameVars, copyVars>>

H2Next ==
    \/ \E hosts \in H2Snapshots : d_publish(hosts)
    \/ d_dispatch
    \/ \E outcome \in {"Ok", "LookupFailed", "ConnectFailed"} : d_connect(outcome)
    \/ \E from_client \in BOOLEAN : d_transfer(from_client)
    \/ \E from_client \in BOOLEAN : d_eof(from_client)
    \/ d_copied
    \/ d_failed

StreamsIdle == FrameIdle /\ CopyIdle /\ H2Idle

\* One subsystem runs at a time; the others stay as constructed.
InitConnect == CacheIdle /\ ConnectInit /\ ReaderIdle /\ RouteIdle /\ HandlerIdle /\ WatchIdle
    /\ CodecIdle /\ ChanIdle
    /\ StreamsIdle

SpecConnect == InitConnect /\ [][ConnectNext]_vars

InitReader == CacheIdle /\ ConnectIdle /\ ReaderInit /\ RouteIdle /\ HandlerIdle /\ WatchIdle
    /\ CodecIdle /\ ChanIdle
    /\ StreamsIdle

SpecReader == InitReader /\ [][ReaderNext]_vars

InitRoute == CacheIdle /\ ConnectIdle /\ ReaderIdle /\ RouteInit /\ HandlerIdle /\ WatchIdle
    /\ CodecIdle /\ ChanIdle
    /\ StreamsIdle

SpecRoute == InitRoute /\ [][RouteNext]_vars

InitWatch ==
    CacheIdle /\ ConnectIdle /\ ReaderIdle /\ RouteIdle /\ HandlerIdle /\ WatchInit
    /\ CodecIdle /\ ChanIdle
    /\ StreamsIdle

InitHandler ==
    CacheIdle /\ ConnectIdle /\ ReaderIdle /\ RouteIdle /\ HandlerInit /\ WatchIdle
    /\ CodecIdle /\ ChanIdle
    /\ StreamsIdle

InitCache == CacheInit /\ ConnectIdle /\ ReaderIdle /\ RouteIdle /\ HandlerIdle /\ WatchIdle
    /\ CodecIdle /\ ChanIdle
    /\ StreamsIdle

SpecWatch == InitWatch /\ [][WatchNext]_vars

SpecCacheCancel == InitCache /\ [][CacheCancelNext]_vars

\* Every underlying resolver call returns, the statement holding the LruCache's
\* lock ends, and a task waiting for a slot's Mutex gets it when it is free
\* again and again (tokio's Mutex is fair).
CacheFair ==
    /\ \A t \in Tasks : WF_vars(GetOrInsert(t))
    /\ \A t \in Tasks : SF_vars(LockSlot(t))
    /\ \A t \in Tasks : WF_vars(\E a \in ResolverAnswers : Fill(t, a))
    /\ \A t \in Tasks : WF_vars(\E a \in ResolverAnswers : NoCacheReturn(t, a))

SpecCacheLive == InitCache /\ [][CacheNext]_vars /\ CacheFair

InitCodec ==
    /\ CodecInit
    /\ CacheIdle /\ ConnectIdle /\ ReaderIdle /\ RouteIdle /\ HandlerIdle /\ WatchIdle
    /\ ChanIdle
    /\ StreamsIdle

SpecCodec == InitCodec /\ [][CodecNext]_vars

InitLine ==
    /\ LineInit
    /\ CacheIdle /\ ConnectIdle /\ ReaderIdle /\ RouteIdle /\ HandlerIdle /\ WatchIdle
    /\ ChanIdle
    /\ StreamsIdle

SpecLine == InitLine /\ [][LineNext]_vars

InitChan ==
    /\ ChanInit
    /\ CacheIdle /\ ConnectIdle /\ ReaderIdle /\ RouteIdle /\ HandlerIdle /\ WatchIdle
    /\ CodecIdle
    /\ StreamsIdle

SpecChan == InitChan /\ [][ChanNext]_vars

InitFrame ==
    /\ FrameInit
    /\ CacheIdle /\ ConnectIdle /\ ReaderIdle /\ RouteIdle /\ HandlerIdle /\ WatchIdle
    /\ CodecIdle /\ ChanIdle /\ CopyIdle /\ H2Idle

SpecFrame == InitFrame /\ [][FrameNext]_vars

InitCopy ==
    /\ CopyInit
    /\ CacheIdle /\ ConnectIdle /\ ReaderIdle /\ RouteIdle /\ HandlerIdle /\ WatchIdle
    /\ CodecIdle /\ ChanIdle /\ FrameIdle /\ H2Idle

SpecCopy == InitCopy /\ [][CopyNext]_vars

InitH2 ==
    /\ H2Init
    /\ CacheIdle /\ ConnectIdle /\ ReaderIdle /\ RouteIdle /\ HandlerIdle /\ WatchIdle
    /\ CodecIdle /\ ChanIdle /\ FrameIdle /\ CopyIdle

SpecH2 == InitH2 /\ [][H2Next]_vars

SpecHandler == InitHandler /\ [][HandlerNext]_vars

SpecCache == InitCache /\ [][CacheNext]_vars

-----------------------------------------------------------------------------
(* Properties of the resolver cache.                                       *)

InFlight(k) == {t \in Tasks : pc[t] \in {"resolving", "no_cache"} /\ key[t] = k}

\* C1: on a cache of size >= 1, at most one underlying Resolver::resolve
\* call per key is in flight at any moment, whatever other keys are resolved.
C1_SingleFlightPerKey ==
    size >= 1 => \A k \in Keys : Cardinality(InFlight(k)) <= 1

C3_ExpiryRule ==
    [][\A t \in Tasks :
        /\ (pc[t] = "slot_lock" /\ pc'[t] # "slot_lock" /\ slotVal[entry[t]] # NoResult) =>
            LET r == slotVal[entry[t]]
                ttl == IF r.kind = "Ok" THEN expiry ELSE negative_expiry
            IN  IF Instant_now - r.cached_at > ttl
                THEN /\ pc'[t] = "resolving"
                     /\ tcalls'[t] = tcalls[t] + 1
                     /\ slotVal' = slotVal
                ELSE /\ pc'[t] = "done"
                     /\ tcalls'[t] = tcalls[t]
                     /\ ret'[t] = (IF r.kind = "Ok" THEN r.result ELSE <<>>)
                     /\ slotVal' = slotVal
        /\ (pc[t] = "resolving" /\ pc'[t] = "done") =>
            /\ tcalls'[t] = 1
            /\ entry'[t] = entry[t]
            /\ slotVal'[entry[t]] # NoResult
            /\ slotVal'[entry[t]].cached_at = Instant_now
            /\ ret'[t] = (IF slotVal'[entry[t]].kind = "Ok" THEN slotVal'[entry[t]].result ELSE <<>>)
            /\ \A s \in Slots \ {entry[t]} : slotVal'[s] = slotVal[s]
            /\ lru' = lru
      ]_vars

\* One call has replaced an expired entry while another has reused a fresh one.
C3_Witness ==
    \E t, u \in Tasks :
        /\ pc[t] = "done" /\ found[t] = "expired" /\ tcalls[t] = 1
        /\ pc[u] = "done" /\ found[u] = "hit" /\ tcalls[u] = 0

\* C4: the LruCache never holds more entries than the configured size.
C4_Capacity == Len(lru) <= size

\* The cache is full and a task still holds a slot that was evicted from it.
C4_Witness ==
    /\ size >= 1
    /\ Len(lru) = size
    /\ \E t \in Tasks : entry[t] # 0 /\ \A i \in 1..Len(lru) : lru[i][2] # entry[t]

\* C5: the LruCache's lock is held only during get_or_insert, never while a
\* slot's lock is awaited or an underlying call is in flight, and a task
\* waits for a slot only behind a task resolving the same key.
C5_LruLockScope ==
    /\ \A t \in Tasks : lruOwner = t => pc[t] = "get_or_insert"
    /\ \A t \in Tasks : pc[t] \in {"slot_lock", "resolving"} => lruOwner # t
    /\ \A t \in Tasks :
        (pc[t] = "slot_lock" /\ slotOwner[entry[t]] # 0) =>
            /\ slotOwner[entry[t]] # t
            /\ key[slotOwner[entry[t]]] = key[t]

\* Underlying calls for two different keys are in flight together.
C5_Witness ==
    \E t, u \in Tasks :
        /\ pc[t] = "resolving" /\ pc[u] = "resolving"
        /\ key[t] # key[u]
        /\ lruOwner = 0

\* C6: with size 0 every resolve makes exactly one underlying call and
\* nothing is kept between calls.
C6_Bypass ==
    size = 0 =>
        /\ lru = <<>>
        /\ \A s \in Slots : slotVal[s] = NoResult
        /\ \A t \in Tasks : pc[t] \in {"idle", "no_cache", "done"}
        /\ \A t \in Tasks : pc[t] = "no_cache" => tcalls[t] = 1
        /\ \A t \in Tasks : pc[t] = "done" => tcalls[t] = 1

\* With size 0, three calls have been made and two of them have just
\* returned, each after its own underlying call.
C6_Witness ==
    /\ size = 0
    /\ started = MaxCalls
    /\ \A t \in Tasks : pc[t] = "done" /\ tcalls[t] = 1

-----------------------------------------------------------------------------
(* Properties of Backend::connect and of the handler's answer.             *)

\* The index of the first address of l that accepts a TCP connection, 0 if none.
FirstReachable(l) ==
    IF \E i \in 1..Len(l) : l[i] \in reachable
    THEN CHOOSE i \in 1..Len(l) : l[i] \in reachable /\ \A j \in 1..(i - 1) : l[j] \notin reachable
    ELSE 0

IsPermutation(a, b) ==
    /\ Len(a) = Len(b)
    /\ \A x \in Addrs :
        Cardinality({i \in 1..Len(a) : a[i] = x}) = Cardinality({i \in 1..Len(b) : b[i] = x})

\* C7: Backend::connect returns LookupFailed exactly when the resolver
\* yields an empty list (a Failed entry included), ConnectFailed exactly when
\* the list is non-empty but no address accepts a TCP connection or the TLS
\* handshake with the backend fails, and otherwise uses the first address
\* of the shuffled list that accepts a connection; the handler answers 503
\* for LookupFailed and 502 for ConnectFailed and returns, after which
\* nothing more happens on the connection.
C7_ConnectErrors ==
    cpc \in {"match", "forward", "returned"} =>
        /\ connect_result \in {"LookupFailed", "ConnectFailed", "Ok"}
        /\ connect_result = "LookupFailed" <=>
              (resolved.kind = "Failed" \/ resolved.result = <<>>)
        /\ connect_result = "ConnectFailed" <=>
              /\ resolved.kind = "Ok" /\ resolved.result # <<>>
              /\ \/ \A i \in 1..Len(resolved.result) : resolved.result[i] \notin reachable
                 \/ secure_backends /\ ~tls_ok
        /\ connect_result # "LookupFailed" => IsPermutation(shuffled, resolved.result)
        /\ connect_result = "Ok" =>
              /\ FirstReachable(shuffled) # 0
              /\ backend_addr = shuffled[FirstReachable(shuffled)]
        /\ cpc = "forward" => connect_result = "Ok" /\ reply = ""
        /\ cpc = "returned" =>
              /\ connect_result = "LookupFailed" => reply = "503 Service Unavailable"
              /\ connect_result = "ConnectFailed" => reply = "502 Bad Gateway"
              /\ connect_result # "Ok"
              /\ ~ ENABLED ConnectNext

\* The first shuffled address refused the connection, the second accepted
\* it, the TLS handshake failed and the handler answered 502 and returned.
C7_Witness ==
    /\ cpc = "returned"
    /\ reply = BAD_GATEWAY
    /\ secure_backends /\ ~tls_ok
    /\ Len(shuffled) >= 2
    /\ shuffled[1] \notin reachable
    /\ backend_addr = shuffled[2]

-----------------------------------------------------------------------------
(* Properties of the body length the reader computes.                      *)

to_ascii_uppercase(b) == IF b \in 97..122 THEN b - 32 ELSE b

UpperCased(m) == [i \in 1..Len(m) |-> to_ascii_uppercase(m[i])]

\* C8: after EndOfHeader the body length of a request is unknown if
\* Transfer-Encoding is chunked; else the Content-Length if there is one;
\* else 0 if the method is, in any letter case, GET, OPTIONS, HEAD, DELETE,
\* CONNECT or TRACE; else unknown if Connection is close; else 0.
C8_RequestLength ==
    (hpc = "body" /\ kind.tag = "Request") =>
        LET chunked == summary.transfer_encoding_is_chunked
            cl == summary.content_length
            bodyless == UpperCased(kind.method) \in
                          {b_GET, b_OPTIONS, b_HEAD, b_DELETE, b_CONNECT, b_TRACE}
            close == summary.connection_is_close
        IN  /\ chunked => body_length = None
            /\ (~chunked /\ cl # None) => body_length = cl
            /\ (~chunked /\ cl = None /\ bodyless) => body_length = Some(0)
            /\ (~chunked /\ cl = None /\ ~bodyless /\ close) => body_length = None
            /\ (~chunked /\ cl = None /\ ~bodyless /\ ~close) => body_length = Some(0)

\* A "get" request in lower case with Connection: close and no length
\* header has been read to the end of its header: its body length is 0.
C8_Witness ==
    /\ hpc = "body"
    /\ kind = [tag |-> "Request", method |-> <<103, 101, 116>>]
    /\ summary.connection_is_close
    /\ summary.content_length = None
    /\ ~summary.transfer_encoding_is_chunked
    /\ body_length = Some(0)

\* C9: after EndOfHeader the body length of a response is unknown for
\* status 101; else 0 for any other 1xx, 204 or 304, whatever Content-Length
\* or Transfer-Encoding say; else unknown if Transfer-Encoding is chunked;
\* else the Content-Length, unknown when there is none.
C9_ResponseLength ==
    (hpc = "body" /\ kind.tag = "Response") =>
        LET code == kind.status_code
            informational == code >= 100 /\ code < 200
            override == code # 101 /\ (informational \/ code \in {204, 304})
            chunked == summary.transfer_encoding_is_chunked
        IN  /\ code = 101 => body_length = None
            /\ override => body_length = Some(0)
            /\ (code # 101 /\ ~override /\ chunked) => body_length = None
            /\ (code # 101 /\ ~override /\ ~chunked) => body_length = summary.content_length

\* A 204 response carrying Content-Length: 5 has been read to the end of
\* its header: its body length is 0.
C9_Witness ==
    /\ hpc = "body"
    /\ kind = [tag |-> "Response", status_code |-> 204]
    /\ summary.content_length = Some(5)
    /\ body_length = Some(0)

-----------------------------------------------------------------------------
(* Properties of the routing of a request path.                            *)

IsPrefixOf(k, p) == Len(k) <= Len(p) /\ \A i \in 1..Len(k) : k[i] = p[i]

\* The request target up to, not including, its first '?'.
TargetPath(p) ==
    CHOOSE q \in Paths :
        /\ IsPrefixOf(q, p)
        /\ \A i \in 1..Len(q) : q[i] # 63
        /\ Len(q) = Len(p) \/ p[Len(q) + 1] = 63

MatchingPrefixes(cfg, p) == {k \in DOMAIN cfg.prefix_matches : IsPrefixOf(k, p)}

Longest(keys) == CHOOSE k \in keys : \A o \in keys : Len(o) <= Len(k)

\* C10: for a known host the request target, cut at its first '?', is
\* mapped to the exact_matches entry for that path if there is one;
\* otherwise to the entry of the longest prefix_matches key that is a
\* prefix of the path; otherwise to any_match; and when none of the three
\* gives an endpoint the handler replies 503 Service Unavailable.
C10_EndpointFor ==
    (rpc # "accepted" /\ host_known) =>
        LET p == TargetPath(full_req_path)
            expected ==
                IF p \in DOMAIN host_cfg.exact_matches THEN Some(host_cfg.exact_matches[p])
                ELSE IF MatchingPrefixes(host_cfg, p) # {}
                THEN Some(host_cfg.prefix_matches[Longest(MatchingPrefixes(host_cfg, p))])
                ELSE host_cfg.any_match
        IN  IF expected = None
            THEN rpc = "replied" /\ route_reply = "503 Service Unavailable" /\ endpoint = None
            ELSE rpc = "mapped" /\ route_reply = "" /\ endpoint = expected

\* The target "/a?" met no exact key and the prefix keys "", "/" and "/a":
\* it was mapped to the endpoint stored under "/a".
C10_Witness ==
    /\ rpc = "mapped"
    /\ host_known
    /\ full_req_path = <<47, 97, 63>>
    /\ <<47, 97>> \notin DOMAIN host_cfg.exact_matches
    /\ {<<>>, <<47>>, <<47, 97>>} \subseteq DOMAIN host_cfg.prefix_matches
    /\ endpoint = Some(EndpointOf("prefix", <<47, 97>>))


-----------------------------------------------------------------------------
(* C11: the request header sent to the backend.                             *)

\* The name of a header line: its bytes before the first colon.
C11_Name(line) == SubSeq(line, 1, FirstOf(line, 1, {58}) - 1)

\* A header line named Forwarded or X-Forwarded-For/-Proto/-Host, in any case.
C11_IsForwarding(line) ==
    \E n \in {b_Forwarded, b_X_Forwarded_For, b_X_Forwarded_Proto, b_X_Forwarded_Host} :
        eq_ignore_ascii_case(C11_Name(line), n)

RECURSIVE C11_Flatten(_)
C11_Flatten(ls) == IF ls = <<>> THEN <<>> ELSE Head(ls) \o C11_Flatten(Tail(ls))

C11_Others == SelectSeq(in_headers, LAMBDA l : ~C11_IsForwarding(l))

\* The four headers the proxy generates, as text.
C11_Generated ==
    b_Forwarded \o <<58, 32>> \o b_for_q \o remote \o b_q_proto \o forwarded_proto
        \o b_host_eq \o h_host \o <<13, 10>>
    \o b_X_Forwarded_For \o <<58, 32>> \o remote \o <<13, 10>>
    \o b_X_Forwarded_Proto \o <<58, 32>> \o forwarded_proto \o <<13, 10>>
    \o b_X_Forwarded_Host \o <<58, 32>> \o h_host \o <<13, 10>>

-----------------------------------------------------------------------------
(* C12: when the connection serves another request.                         *)

\* Both copies of the last forward completed without error.
C12_CopiesCompleted == copy_req_done /\ copy_resp_done

\* C12 as stated: after a forwarded request the handler loops for another
\* request exactly when both copies completed without error and the request
\* body length was known.
C12_AsStated ==
    can_reuse # "unset" =>
        ((h_pc = "fill_buf") <=> (C12_CopiesCompleted /\ req_content_length # None))

\* C12: after a forwarded request the handler loops to read another request
\* exactly when the request copy and the response copy both completed without
\* error and the request body length and the response body length were both
\* known; in every other case it leaves the loop, and once it has left, the
\* backend and the client connection are shut down.
C12_Reuse ==
    can_reuse # "unset" =>
        /\ (h_pc = "fill_buf") <=>
               (C12_CopiesCompleted /\ req_content_length # None /\ resp_length # None)
        /\ h_pc \in {"fill_buf", "end", "closed"}
        /\ h_pc = "closed" =>
               /\ sock_shut
               /\ prev = None
               /\ backend_log # <<>>
               /\ backend_log[Len(backend_log)] = <<"shutdown", backend>>

\* Both copies completed, the request's length was known, the response's was
\* not, and the connections were shut down.
C12_Witness ==
    /\ h_pc = "closed"
    /\ can_reuse = "false"
    /\ C12_CopiesCompleted
    /\ req_content_length = Some(3)
    /\ resp_length = None


-----------------------------------------------------------------------------
(* C13: when a backend is dialed.                                           *)

\* The endpoints of the connection's requests that came to need a backend.
C13_Requests == SelectSeq(backend_log, LAMBDA e : e[1] = "request")

C13_Connects == SelectSeq(backend_log, LAMBDA e : e[1] = "connect")

\* The requests whose endpoint is not that of the request before.
C13_Changes ==
    {i \in 1..Len(C13_Requests) : i = 1 \/ C13_Requests[i][2] # C13_Requests[i - 1][2]}

\* The carried-over backend is missing or is connected to another endpoint.
C13_MustDial == IF prev = None THEN TRUE ELSE prev[1].endpoint # h_endpoint[1]

\* The step that gives the request its backend.
C13_Step ==
    h_pc = "backend" /\ h_pc' # "backend" =>
        /\ dialed' <=> C13_MustDial
        /\ C13_MustDial /\ prev # None =>
               /\ Len(backend_log') = Len(backend_log) + 3
               /\ backend_log'[Len(backend_log) + 2] = <<"shutdown", prev[1].backend>>
               /\ backend_log'[Len(backend_log) + 3][1] = "connect"
               /\ backend_log'[Len(backend_log) + 3][2] = h_endpoint[1]
        /\ ~C13_MustDial =>
               /\ backend' = prev[1].backend
               /\ Len(backend_log') = Len(backend_log) + 1

\* C13: on one client connection a backend is dialed for a request exactly
\* when there is no carried-over backend or its endpoint differs from the
\* request's, and when it differs the previous backend is shut down before
\* the dial; so the dials of a connection are as many as its first request
\* and the changes of endpoint between consecutive requests: one for requests
\* all routed to one endpoint, two for a change from E1 to E2.
C13_Dials ==
    /\ [](Len(C13_Connects) = Cardinality(C13_Changes))
    /\ [][C13_Step]_vars

\* A second request, routed to E2 after one routed to E1, dialed after the
\* backend of E1 was shut down.
C13_Witness ==
    /\ served = 2
    /\ h_pc = "select"
    /\ backend_log = <<<<"request", E1>>, <<"connect", E1, "Ok">>, <<"request", E2>>,
                       <<"shutdown", 1>>, <<"connect", E2, "Ok">>>>

\* Two requests routed to E1 served over one dial.
C13_SameEndpoint ==
    /\ served = 2
    /\ h_pc = "select"
    /\ backend_log = <<<<"request", E1>>, <<"connect", E1, "Ok">>, <<"request", E1>>>>


-----------------------------------------------------------------------------
(* C14: the redirect to HTTPS.                                              *)

\* The request was routed to an endpoint that asks for the redirect.
C14_SslRedirect == IF h_endpoint = None THEN FALSE ELSE h_endpoint[1].opts.ssl_redirect

\* The target of a request line: its bytes between the first two spaces.
C14_Target(line) ==
    SubSeq(line, FirstOf(line, 1, {32}) + 1,
           FirstOf(line, FirstOf(line, 1, {32}) + 1, {32}) - 1)

\* "HTTP/1.1 301 Moved Permanently\r\nLocation: https://<host><target>\r\n"
C14_Head ==
    b_301_line \o b_Location \o <<58, 32>> \o b_https_url \o h_host \o C14_Target(req_line)
    \o <<13, 10>>

\* The whole answer to "GET /a?x HTTP/1.1" with "hOST: \tR:80 \r\n".
C14_Answer ==
    <<72, 84, 84, 80, 47, 49, 46, 49, 32, 51, 48, 49, 32, 77, 111, 118, 101, 100, 32, 80, 101, 114, 109, 97, 110, 101, 110, 116, 108, 121, 13, 10, 76, 111, 99, 97, 116, 105, 111, 110, 58, 32, 104, 116, 116, 112, 115, 58, 47, 47, 114, 47, 97, 63, 120, 13, 10, 67, 111, 110, 116, 101, 110, 116, 45, 84, 121, 112, 101, 58, 32, 116, 101, 120, 116, 47, 104, 116, 109, 108, 13, 10, 67, 111, 110, 116, 101, 110, 116, 45, 76, 101, 110, 103, 116, 104, 58, 32, 52, 55, 13, 10, 13, 10, 60, 97, 32, 104, 114, 101, 102, 61, 34, 104, 116, 116, 112, 115, 58, 47, 47, 114, 47, 97, 63, 120, 34, 62, 77, 111, 118, 101, 100, 32, 80, 101, 114, 109, 97, 110, 101, 110, 116, 108, 121, 60, 47, 97, 62, 46, 10>>

\* C14: a request routed to an endpoint with ssl_redirect on the plain-HTTP
\* listener is answered 301 Moved Permanently with Location https://, the
\* normalized host without its port, and the request target with its query;
\* no backend is dialed for it, nothing of it is forwarded and the connection
\* serves no further request. On the HTTPS listener the same request is not
\* answered by the handler and leaves the loop only through a forward.
C14_Redirect ==
    /\ C14_SslRedirect /\ forwarded_proto = b_http =>
           /\ h_pc \in {"end", "closed"}
           /\ Len(h_reply) > Len(C14_Head)
           /\ SubSeq(h_reply, 1, Len(C14_Head)) = C14_Head
           /\ \A i \in 1..Len(h_host) :
                  h_host[i] \notin ({58} \cup (65..90) \cup {9, 10, 12, 13, 32})
           /\ C14_Target(req_line) = h_path
           /\ req_line = rl_get_a /\ host_line = hl_host_r => h_reply = C14_Answer
           /\ Len(C13_Requests) = served - 1
           /\ ~dialed /\ backend = 0
           /\ initial_data = <<>>
           /\ hdr_unsent = 0 /\ ~body_sent /\ fwd_result = "unset"
    /\ C14_SslRedirect /\ forwarded_proto = b_https =>
           /\ h_reply = <<>> \/ h_pc = "returned" \/ fwd_result = "false"
           /\ h_pc \in {"end", "closed"} => fwd_result # "unset"

\* "GET /a?x HTTP/1.1" for host "R:80" on the plain-HTTP listener, answered
\* and the connection closed.
C14_Witness ==
    /\ C14_SslRedirect
    /\ forwarded_proto = b_http
    /\ h_pc = "closed"
    /\ req_line = rl_get_a
    /\ host_line = hl_host_r
    /\ h_reply = C14_Answer

\* The same request on the HTTPS listener, forwarded.
C14_Proxied ==
    /\ C14_SslRedirect
    /\ forwarded_proto = b_https
    /\ h_pc = "backend"
    /\ req_line = rl_get_a
    /\ host_line = hl_host_r


-----------------------------------------------------------------------------
(* C15: the answers to requests the handler cannot read.                    *)

C15_StartsWith(bytes, head) == Len(bytes) >= Len(head) /\ SubSeq(bytes, 1, Len(head)) = head

\* "HTTP/1.1 400 Bad Request\r\n"
C15_400 == <<72, 84, 84, 80, 47, 49, 46, 49, 32, 52, 48, 48, 32, 66, 97, 100, 32, 82, 101, 113, 117, 101, 115, 116, 13, 10>>
\* The whole answers 414 and 413.
C15_414 ==
    <<72, 84, 84, 80, 47, 49, 46, 49, 32, 52, 49, 52, 32, 85, 82, 73, 32, 84, 111, 111, 32, 76, 111, 110, 103, 13, 10, 67, 111, 110, 116, 101, 110, 116, 45, 84, 121, 112, 101, 58, 32, 116, 101, 120, 116, 47, 112, 108, 97, 105, 110, 13, 10, 67, 111, 110, 116, 101, 110, 116, 45, 76, 101, 110, 103, 116, 104, 58, 32, 49, 55, 13, 10, 13, 10, 52, 49, 52, 32, 85, 82, 73, 32, 84, 111, 111, 32, 76, 111, 110, 103, 10>>
C15_413 ==
    <<72, 84, 84, 80, 47, 49, 46, 49, 32, 52, 49, 51, 32, 67, 111, 110, 116, 101, 110, 116, 32, 84, 111, 111, 32, 76, 97, 114, 103, 101, 13, 10, 67, 111, 110, 116, 101, 110, 116, 45, 84, 121, 112, 101, 58, 32, 116, 101, 120, 116, 47, 112, 108, 97, 105, 110, 13, 10, 67, 111, 110, 116, 101, 110, 116, 45, 76, 101, 110, 103, 116, 104, 58, 32, 50, 50, 13, 10, 13, 10, 52, 49, 51, 32, 67, 111, 110, 116, 101, 110, 116, 32, 84, 111, 111, 32, 76, 97, 114, 103, 101, 10>>

\* The handler stops and nothing of the request has gone to a backend.
C15_Stopped ==
    /\ h_pc' = "returned"
    /\ backend_log' = backend_log
    /\ forwardVars' = forwardVars
    /\ fwd_result = "unset" /\ ~body_sent /\ hdr_unsent = 0 /\ backend = 0

\* A step that reads the line h_input' from the client.
C15_Step ==
    /\ lines_read' = lines_read + 1 =>
        /\ h_error' = "IO" => h_reply' = <<>> /\ C15_Stopped
        /\ h_error' # "IO" /\ h_pc = "request_line" =>
            /\ Len(h_input') > 8192 => h_reply' = C15_414 /\ C15_Stopped
            /\ h_input' \in {rl_cr, rl_eof} => C15_StartsWith(h_reply', C15_400) /\ C15_Stopped
            /\ h_input' = rl_full => h_pc' = "first_header"
        /\ h_error' # "IO" /\ h_pc = "first_header" =>
            /\ Len(h_input') > 512 => h_reply' = C15_413 /\ C15_Stopped
            /\ h_input' \in {hl_nocolon, hl_accept, hl_end} =>
                   C15_StartsWith(h_reply', C15_400) /\ C15_Stopped
        /\ h_error' # "IO" /\ h_pc = "headers" =>
            /\ Len(h_input') > 4096 => h_reply' = C15_413 /\ C15_Stopped
            /\ h_input' \in {hl_nocolon, hl_clx} =>
                   C15_StartsWith(h_reply', C15_400) /\ C15_Stopped
    /\ h_pc = "returned" => h_pc' = "returned"

\* C15: a request line of more than 8192 bytes is answered 414 URI Too Long;
\* a malformed request line or header 400 Bad Request; a first header that is
\* not Host, or the end of the header in its place, 400; a Host header of more
\* than 512 bytes or a later header of more than 4096 bytes 413 Content Too
\* Large; an I/O error nothing. Each time the handler stops and no byte of the
\* request has gone to a backend.
C15_Errors == [][C15_Step]_vars

\* A later header of 4097 bytes, answered 413.
C15_Witness ==
    /\ h_pc = "returned"
    /\ h_input = hl_long
    /\ host_line # <<>>
    /\ h_reply = C15_413


-----------------------------------------------------------------------------
(* C16: unknown hosts and paths without a route.                            *)

\* "HTTP/1.1 404 Not Found" with the body "Unknown host".
C16_404 ==
    <<72, 84, 84, 80, 47, 49, 46, 49, 32, 52, 48, 52, 32, 78, 111, 116, 32, 70, 111, 117, 110, 100, 13, 10, 67, 111, 110, 116, 101, 110, 116, 45, 84, 121, 112, 101, 58, 32, 116, 101, 120, 116, 47, 112, 108, 97, 105, 110, 13, 10, 67, 111, 110, 116, 101, 110, 116, 45, 76, 101, 110, 103, 116, 104, 58, 32, 49, 51, 13, 10, 13, 10, 85, 110, 107, 110, 111, 119, 110, 32, 104, 111, 115, 116, 10>>
\* "HTTP/1.1 503 Service Unavailable" with the status as body.
C16_503 ==
    <<72, 84, 84, 80, 47, 49, 46, 49, 32, 53, 48, 51, 32, 83, 101, 114, 118, 105, 99, 101, 32, 85, 110, 97, 118, 97, 105, 108, 97, 98, 108, 101, 13, 10, 67, 111, 110, 116, 101, 110, 116, 45, 84, 121, 112, 101, 58, 32, 116, 101, 120, 116, 47, 112, 108, 97, 105, 110, 13, 10, 67, 111, 110, 116, 101, 110, 116, 45, 76, 101, 110, 103, 116, 104, 58, 32, 50, 52, 13, 10, 13, 10, 53, 48, 51, 32, 83, 101, 114, 118, 105, 99, 101, 32, 85, 110, 97, 118, 97, 105, 108, 97, 98, 108, 101, 10>>

\* The target p up to its first '?'.
C16_Path(p) == IF \E i \in 1..Len(p) : p[i] = 63
               THEN SubSeq(p, 1, Least({i \in 1..Len(p) : p[i] = 63}) - 1)
               ELSE p

\* No exact, prefix or any route of cfg matches the path.
C16_NoRoute(cfg, path) ==
    /\ path \notin DOMAIN cfg.exact_matches
    /\ \A k \in DOMAIN cfg.prefix_matches : ~IsPrefixOf(k, path)
    /\ cfg.any_match = None

\* The handler stops without a resolver call or a dial, which Backend::connect
\* alone makes.
C16_Stopped ==
    /\ h_pc' = "returned"
    /\ backend_log' = backend_log
    /\ ~dialed' /\ backend' = 0
    /\ forwardVars' = forwardVars

\* The step that looks the host of the request up in the snapshot current at
\* that moment, h_hosts'.
C16_Step ==
    h_pc = "first_header" /\ h_host' # <<>> =>
        /\ h_input' = hl_host_r => h_host' = <<114>>
        /\ h_host' \notin DOMAIN h_hosts' => h_reply' = C16_404 /\ C16_Stopped
        /\ h_host' \in DOMAIN h_hosts' =>
               (C16_NoRoute(h_hosts'[h_host'], C16_Path(h_path)) =>
                    h_reply' = C16_503 /\ C16_Stopped)

\* C16: a request whose normalized host is not a key of the snapshot current
\* at the lookup is answered 404 Not Found with the body "Unknown host"; one
\* whose host is known but whose path matches no exact, prefix or any route is
\* answered 503 Service Unavailable; either way no resolver call and no dial
\* is made for it and the handler stops.
C16_UnknownHostNoRoute ==
    /\ [][C16_Step]_vars
    /\ [](h_pc = "returned" => ~ENABLED HandlerNext)

\* "GET / HTTP/1.1" for host a.b, which has an exact /a and a prefix /b route
\* only: answered 503.
C16_Witness ==
    /\ h_pc = "returned"
    /\ req_line = rl_get_root
    /\ h_host = <<97, 46, 98>>
    /\ h_hosts = HostsFull
    /\ h_reply = C16_503

\* A host that the snapshot does not hold: answered 404.
C16_Unknown ==
    /\ h_pc = "returned"
    /\ h_host = <<122, 122>>
    /\ h_hosts = HostsFull
    /\ h_reply = C16_404


-----------------------------------------------------------------------------
(* C17: headers before bodies.                                              *)

\* The response's half: body bytes reach the client only after the status
\* line and the header were flushed to it.
C17_ResponseSide == resp_body_sent => resp_hdr_sent

\* C17: for every forwarded request, all bytes of the rewritten request header
\* are written to the backend before any byte of the request body, and all
\* bytes of the response's status line and header are written to the client
\* before any byte of the response body.
C17_HeaderBeforeBody ==
    /\ body_sent => hdr_unsent = 0
    /\ C17_ResponseSide


-----------------------------------------------------------------------------
(* C18 *)

\* The step is a turn of run_once's loop that ingested an event.
C18_Ingested == w_events' = w_events + 1

C18_Flags ==
    C18_Ingested =>
        /\ (~ings_ready /\ ings_ready') => w_last' = [kind |-> "ing", type |-> "InitDone"]
        /\ (~secrets_ready /\ secrets_ready')
               => w_last' = [kind |-> "secrets", type |-> "InitDone"]
        /\ w_last' = [kind |-> "ing", type |-> "Init"] => ~ings_ready'
        /\ w_last' = [kind |-> "secrets", type |-> "Init"] => ~secrets_ready'

\* C18: nothing is published, and readers see the initial empty snapshot,
\* until the ingress stream and the secret stream have each delivered
\* InitDone; a kind's ready flag becomes true only on that kind's InitDone and
\* is false after that kind's Init.
C18_PublishAfterInitDone ==
    /\ [](w_failures = 0 /\ inits_done # Kinds => w_sends = 0 /\ tx = <<>>)
    /\ [][(tx' # tx \/ w_sends' # w_sends) => inits_done' = Kinds]_vars
    /\ [][C18_Flags]_vars

\* The first snapshot is published by the InitDone that completes both
\* lists, and it has a host.
C18_Witness ==
    /\ w_failures = 0
    /\ w_sends = 1
    /\ inits_done = Kinds
    /\ w_last.type = "InitDone"
    /\ tx # <<>>

\* A flag is false again after an Init that restarts a watch, and the
\* snapshot published before stays.
C18_Restarted ==
    /\ w_failures = 0
    /\ w_sends > 0
    /\ w_last = [kind |-> "ing", type |-> "Init"]
    /\ ~ings_ready
    /\ secrets_ready

-----------------------------------------------------------------------------
(* C19 *)

\* C19: after a failure of a watch, readers see the snapshot published before
\* it during the retry delay and the new lists, as long as some stream has not
\* delivered InitDone again.
C19_SnapshotKept ==
    (w_failures > 0 /\ inits_done # Kinds) => (tx = tx_at_failure)

\* The ingress list is over again and empty, the secret list is not, and
\* readers still see the hosts published before the failure.
C19_Witness ==
    /\ w_failures > 0
    /\ w_pc = "ingest"
    /\ inits_done = {"ing"}
    /\ ingresses = <<>>
    /\ ings_ready
    /\ tx # <<>>
    /\ tx = tx_at_failure

-----------------------------------------------------------------------------
(* C20 *)

\* The HostConfig has a route.
C20_Routed(cfg) ==
    \/ cfg.any_match # None
    \/ cfg.exact_matches # <<>>
    \/ cfg.prefix_matches # <<>>

\* C20: every HostConfig of the published snapshot has any_match set or an
\* entry in exact_matches or prefix_matches.
C20_EveryHostRouted == \A h \in DOMAIN tx : C20_Routed(tx[h])

\* A published snapshot all of whose hosts have a route.
C20_SomeRouted == tx # <<>> /\ C20_EveryHostRouted


-----------------------------------------------------------------------------
(* C21 *)

\* The event ingested last was an Apply in a ready state and the event before
\* it was the same Apply.
C21_AppliedTwice == w_hist # <<>> /\ w_hist[1].type = "Apply" /\ w_hist[1].again

\* C21: when all streams are ready, the snapshot published by the second of
\* two Apply(v) in a row is the snapshot the first one published.
C21_ApplyTwice == C21_AppliedTwice => tx = w_hist[1].tx_before

\* An ingress with a route was applied twice in a row.
C21_Witness ==
    /\ C21_AppliedTwice
    /\ w_hist[1].kind = "ing"
    /\ w_hist[1].obj = ing_c
    /\ w_hist[1].had
    /\ host_c \in DOMAIN tx

\* A valid secret was applied twice in a row.
C21_SecretTwice ==
    /\ C21_AppliedTwice
    /\ w_hist[1].kind = "secrets"
    /\ w_hist[1].obj = sec_ok


-----------------------------------------------------------------------------
(* C22 *)

\* The event ingested last was the Delete of the object whose Apply was
\* ingested before it, in a ready state.
C22_Deleted == w_hist # <<>> /\ w_hist[1].type = "Delete"

\* The snapshot of the state before the Apply with the object's key taken out
\* of its map: the contributions of all other objects.
C22_Others(h) ==
    IF h.kind = "ing"
    THEN assemble(map_remove(h.ingresses_before, h.obj.key), h.secrets_before)
    ELSE assemble(h.ingresses_before, map_remove(h.secrets_before, h.obj.key))

\* C22: in a ready state, after Apply(v) and then Delete(v) the published
\* snapshot is made of the other objects only, as they were before the Apply,
\* and it is the snapshot published before the Apply when v's key was not in
\* the map before.
C22_ApplyDelete ==
    C22_Deleted =>
        /\ tx = C22_Others(w_hist[1])
        /\ w_hist[1].obj.key \notin DOMAIN (IF w_hist[1].kind = "ing" THEN ingresses
                                             ELSE secrets)
        /\ ~w_hist[1].had => tx = w_hist[1].tx_before

\* An ingress whose key had another ingress before is applied and deleted:
\* host c is gone from the snapshot, host a.b stays.
C22_Witness ==
    /\ C22_Deleted
    /\ w_hist[1].obj = ing_c
    /\ w_hist[1].had
    /\ host_c \in DOMAIN w_hist[1].tx_before
    /\ host_c \notin DOMAIN tx
    /\ host_ab \in DOMAIN tx

\* An ingress that was not there before is applied and deleted.
C22_NotPresent ==
    /\ C22_Deleted
    /\ w_hist[1].obj = ing_c
    /\ ~w_hist[1].had
    /\ tx # <<>>

\* A secret that was not there before is applied and deleted.
C22_SecretNotPresent ==
    /\ C22_Deleted
    /\ w_hist[1].obj = sec_ok
    /\ ~w_hist[1].had


-----------------------------------------------------------------------------
(* C25 *)

\* The event ingested last, in a ready state, was the Apply of an object that
\* does not parse.
C25_AppliedUnparsable ==
    /\ w_hist # <<>>
    /\ w_hist[1].type = "Apply"
    /\ IF w_hist[1].kind = "ing" THEN Ingress_value_from(w_hist[1].obj) = None
       ELSE ~w_hist[1].obj.valid

\* The snapshot of the maps without the key of the object applied last.
C25_WithoutObject ==
    IF w_hist[1].kind = "ing"
    THEN assemble(map_remove(ingresses, w_hist[1].obj.key), secrets)
    ELSE assemble(ingresses, map_remove(secrets, w_hist[1].obj.key))

\* C25: the snapshot published after the Apply of an object that does not
\* parse has nothing of that object, nor of an earlier version of it.
C25_UnparsableDropped == C25_AppliedUnparsable => tx = C25_WithoutObject

\* The object that does not parse had no earlier version: nothing of it is in
\* the snapshot.
C25_NoEarlierVersion ==
    /\ C25_AppliedUnparsable
    /\ ~w_hist[1].had
    /\ tx # <<>>
    /\ tx = C25_WithoutObject


-----------------------------------------------------------------------------
(* C27 *)

\* The value of option k in the annotations: the one under
\* ingress.kubernetes.io/ when that key is there, else the one under
\* nginx.ingress.kubernetes.io/, else "absent".
C27_Value(ing, k) ==
    IF ing.annotations = None THEN "absent"
    ELSE IF ann_ik(k) \in DOMAIN ing.annotations[1] THEN ing.annotations[1][ann_ik(k)]
    ELSE IF ann_nginx(k) \in DOMAIN ing.annotations[1] THEN ing.annotations[1][ann_nginx(k)]
    ELSE "absent"

C27_Expected(ing) ==
    [secure_backends |-> C27_Value(ing, "secure-backends") = "true",
     ssl_redirect |-> C27_Value(ing, "secure-backends") = "true",
     http2 |-> C27_Value(ing, "http2") = "true"]

\* The endpoints of a HostConfig.
C27_Endpoints(cfg) ==
    {cfg.exact_matches[p] : p \in DOMAIN cfg.exact_matches}
        \cup {cfg.prefix_matches[p] : p \in DOMAIN cfg.prefix_matches}
        \cup (IF cfg.any_match = None THEN {} ELSE {cfg.any_match[1]})

\* C27: every endpoint of the published snapshot has ssl_redirect equal to
\* secure_backends and, when it was published from the present state, the
\* options of an ingress of the state; the options of an ingress are the
\* ones its annotations give, the ingress.kubernetes.io/ key first, "true"
\* alone giving true.
C27_EndpointOptions ==
    /\ \A h \in DOMAIN tx : \A ep \in C27_Endpoints(tx[h]) :
           /\ ep.opts.ssl_redirect = ep.opts.secure_backends
           /\ (ings_ready /\ secrets_ready)
                  => \E k \in DOMAIN ingresses : ep.opts = ingresses[k].endpoint_opts
    /\ \A r \in RawIngresses :
           (r.key \in DOMAIN ingresses /\ Ingress_value_from(r) = Some(ingresses[r.key]))
               => ingresses[r.key].endpoint_opts = C27_Expected(r)

\* Published together: an endpoint whose secure-backends is "true" under the
\* first prefix and "false" under the second, with http2 under the second
\* only; and one whose secure-backends is under the second prefix only and
\* whose http2 is "false" under the first and "true" under the second.
C27_Witness ==
    /\ host_c \in DOMAIN tx
    /\ tx[host_c].any_match # None
    /\ tx[host_c].any_match[1].opts
           = [secure_backends |-> TRUE, ssl_redirect |-> TRUE, http2 |-> TRUE]
    /\ ings_ready /\ secrets_ready
    /\ host_AB \in DOMAIN tx
    /\ tx[host_AB].exact_matches["/a"].opts
           = [secure_backends |-> TRUE, ssl_redirect |-> TRUE, http2 |-> FALSE]


-----------------------------------------------------------------------------
(* C24 *)

\* The hosts of the rules of the ingresses of the state.
C24_RuleHosts ==
    UNION {{ingresses[k].rules[i].host : i \in 1..Len(ingresses[k].rules)} :
               k \in DOMAIN ingresses}

\* The handler's lookup for a Host header with this value.
C24_Lookup(value) == Context_host(tx, normalize_host(value))

\* C24: every key of the published snapshot is a lowercased host name, and
\* when the snapshot was published from the present state a Host header equal
\* to a rule's host up to ASCII case finds that rule's HostConfig.
C24_LowercaseKeys ==
    /\ \A h \in DOMAIN tx : h = to_lowercase(h)
    /\ (ings_ready /\ secrets_ready) =>
           \A h \in C24_RuleHosts : \A value \in {h, to_lowercase(h)} :
               C24_Lookup(value) = Some(tx[h])

\* A rule's host written in lower case: the Host header A.B finds it.
C24_LowercaseRule ==
    /\ ings_ready /\ secrets_ready
    /\ host_ab \in C24_RuleHosts
    /\ C24_Lookup(host_AB) = Some(tx[host_ab])

-----------------------------------------------------------------------------
(* Writer and Reader back to back                                          *)

\* The stream as it was written, and the lines of it that begin at byte at.
k_stream == Written(k_items)

LinesAt(at) == {i \in 1..Len(k_items) : Len(Written(SubSeq(k_items, 1, i - 1))) = at}

\* A field without CR or LF and without a space or tab at either end.
PlainField(f) ==
    /\ \A i \in 1..Len(f) : f[i] \notin {13, 10}
    /\ f # <<>> => f[1] \notin {32, 9} /\ f[Len(f)] \notin {32, 9}

PlainItem(item) == \A i \in 1..Len(item.fields) : PlainField(item.fields[i])

HasByte(f, b) == \E i \in 1..Len(f) : f[i] = b

\* The fields a line splits back into: no space inside the method, the path or
\* the status code, a path that is not empty, a status code that is a decimal
\* number of 16 bits, a header name without ':' of at most 37 bytes, and a
\* Content-Length value that is a decimal number.
SplitItem(item) ==
    CASE item.kind = "request" ->
           /\ ~HasByte(item.fields[1], 32)
           /\ item.fields[2] # <<>> /\ ~HasByte(item.fields[2], 32)
      [] item.kind = "status" -> parse_u16(item.fields[2]) # None
      [] item.kind = "header" ->
           /\ ~HasByte(item.fields[1], 58)
           /\ Len(item.fields[1]) <= HeaderNameLimit - 3
           /\ process_header(HeaderSummary_new, item.fields[1], item.fields[2]).err = ""
      [] OTHER -> TRUE

\* The call made last read the line item back, field by field.
ReadBack(item) ==
    CASE k_call.op = "request_line" -> item.kind = "request" => k_call.fields = item.fields
      [] k_call.op = "status_line" -> item.kind = "status" => k_call.fields = item.fields
      [] k_call.op = "header_name" ->
           item.kind = "header" => ~k_call.end /\ k_call.fields = <<item.fields[1]>>
      [] k_call.op = "header_value" -> item.kind = "header" => k_call.fields = item.fields
      [] OTHER -> TRUE

\* Did the call made last read the line item with the reader call of its kind?
CallOn(item) ==
    \/ k_call.op = "request_line" /\ item.kind = "request"
    \/ k_call.op = "status_line" /\ item.kind = "status"
    \/ k_call.op \in {"header_name", "header_value"} /\ item.kind = "header"

\* The call made last had no limit in its way.
Unlimited == k_limit = None /\ k_call.limit \in {BigLimit, HeaderNameLimit}

C28_LongName ==
    /\ Unlimited /\ k_call.err = ""
    /\ k_call.op = "header_value"
    /\ k_call.fields = <<name_of(HeaderNameLimit - 3), <<118>>>>
    /\ k_items[1].kind = "header" /\ PlainItem(k_items[1]) /\ SplitItem(k_items[1])

\* The total limit bounds the bytes consumed over successful calls.
C29_TotalBound == k_pc = "reading" /\ k_limit # None => k_consumed <= k_limit[1]

\* A successful call consumes at most its own limit.
C29_CallBound == k_call.op # "none" /\ k_call.err = "" => k_call.count <= k_call.limit

\* A well-formed line that fits within both bounds is accepted.
C29_FitsAccepted ==
    k_call.op # "none" /\ k_call.need >= 0 /\ k_call.need <= k_call.ranger
    => k_call.err = ""

\* A call that would have to consume more than either bound fails with LimitReached.
C29_BeyondRejected ==
    k_call.op # "none" /\ k_call.need > k_call.ranger => k_call.err = "LimitReached"

\* C29: the bytes consumed over successful calls never exceed the Reader's
\* total limit, each call consumes at most its own limit, a well-formed line
\* that fits within both bounds is accepted, and a call that would have to
\* consume more than either bound fails with LimitReached.
C29_WithinLimits ==
    /\ C29_TotalBound
    /\ C29_CallBound
    /\ C29_FitsAccepted
    /\ C29_BeyondRejected

\* The byte i of the stream begins a CRLF that no space or tab follows.
EndsValue(i) ==
    /\ i + 2 <= Len(k_stream)
    /\ k_stream[i] = 13 /\ k_stream[i + 1] = 10
    /\ k_stream[i + 2] \notin {32, 9}

\* C30: after header_value or skip_header_value returned, the reader has
\* consumed exactly the bytes through the first CRLF that a byte other than
\* space or tab follows; that byte is still on the stream, and it is the first
\* byte the next header_name call reads.
C30_ValueEnd ==
    /\ k_call.op \in {"header_value", "skip_header_value"} /\ k_call.err = ""
       => /\ EndsValue(k_consumed - 1)
          /\ \A i \in (k_consumed - k_call.count + 1)..(k_consumed - 2) : ~EndsValue(i)
          /\ k_wire = SubSeq(k_stream, k_consumed + 1, Len(k_stream))
    /\ k_call.op = "header_name" /\ k_call.err = "" /\ k_call.at > 0
       => /\ k_call.count > 0
          /\ k_call.end => k_stream[k_call.at + 1] = 13
          /\ ~k_call.end /\ k_call.fields[1] # <<>>
             => k_call.fields[1][1] = k_stream[k_call.at + 1]

\* A value folded over two lines was read, and a line follows it.
C30_Witness ==
    /\ k_call.op = "header_value" /\ k_call.err = ""
    /\ k_call.fields[2] = <<118, 13, 10, 32, 119>>
    /\ k_wire # <<>>

\* The name of the line after a folded value was read.
C30_NextName ==
    /\ k_call.op = "header_name" /\ k_call.err = "" /\ ~k_call.end
    /\ k_call.at > 0
    /\ k_items[1].kind = "header" /\ k_items[1].fields[2] = <<118, 13, 10, 32, 119>>

-----------------------------------------------------------------------------
(* The watch channel and the TLS callbacks                                  *)

\* The Hosts of the channel by value: each host with the HostConfig its Arc
\* points to.
Deref(hosts) == [h \in DOMAIN hosts |-> heap[hosts[h]]]

\* Is a callback holding the result of Context::host?
Held == t_pc \in {"sni_held", "alpn_held"}

\* C23: what Context::host hands out while the assembler runs is the host's
\* entry of one whole published snapshot, never of Hosts half assembled, and
\* the HostConfig behind a reference handed out stays what it was when a
\* later snapshot is published.
C23_WholeSnapshots ==
    /\ arcs_of(chan) \subseteq DOMAIN heap
    /\ Deref(chan) = snap
    /\ Held => /\ t_ref = None <=> t_seen = None
               /\ t_ref # None => t_ref[1] \in DOMAIN heap /\ heap[t_ref[1]] = t_seen[1]

\* A callback holds a reference, a snapshot was published since, and the
\* host's entry in it differs from the HostConfig the reference points to.
C23_Witness ==
    /\ Held /\ t_ref # None /\ t_crossed
    /\ Context_host(snap, t_name[1]) # t_seen
    /\ Context_host(snap, t_name[1]) # None

\* A lookup ran while the assembler was half way through the rules of a host.
C23_HalfAssembled ==
    /\ Held /\ t_ref # None
    /\ c_pc = "assemble" /\ c_todo # <<>> /\ c_hosts # <<>>

\* h2-ready, spelled out: no exact and no prefix matches, and an any match
\* with secure_backends and http2 both true.
H2Ready(cfg) ==
    /\ cfg.exact_matches = <<>> /\ cfg.prefix_matches = <<>>
    /\ cfg.any_match # None
    /\ cfg.any_match[1].opts.secure_backends /\ cfg.any_match[1].opts.http2

\* C26: a handshake is answered with a fatal alert when the client sent no
\* server name, when the name is not a key of the snapshot a callback looks it
\* up in, or when the host has no tls_key_cert, so that the servername callback
\* lets a handshake go on only if none of the three is the case; the ALPN
\* callback offers h2 only when the host's HostConfig is h2-ready.
C26_Handshake ==
    /\ t_out.sni \in {"", "ok", "fatal"}
    /\ t_pc = "done" /\ (t_name = None \/ t_seen = None)
       => t_out.sni = "fatal" \/ (t_out.sni = "ok" /\ t_out.alpn = "fatal")
    /\ t_pc = "done" /\ t_out.alpn = "" /\ t_seen # None /\ t_seen[1].tls_key_cert = None
       => t_out.sni = "fatal"
    /\ t_pc = "alpn"
       => t_out.sni = "ok" /\ t_name # None /\ t_seen # None
          /\ t_seen[1].tls_key_cert # None
    /\ t_pc = "done" /\ t_out.offer # <<>>
       => /\ t_seen # None
          /\ (\E i \in 1..Len(t_out.offer) : t_out.offer[i] = "h2") => H2Ready(t_seen[1])
          /\ t_out.alpn = "h2" => H2Ready(t_seen[1])

\* A handshake for an h2-ready host chose h2.
C26_Witness ==
    /\ t_pc = "done" /\ t_out.sni = "ok" /\ t_out.alpn = "h2"
    /\ t_out.offer = ALPN_H2_H1

\* A handshake was rejected for a host without tls_key_cert.
C26_NoCert ==
    /\ t_pc = "done" /\ t_out.sni = "fatal"
    /\ t_seen # None /\ t_seen[1].tls_key_cert = None

\* A client offering h2 got http/1.1 from a host with an any match that has
\* http2 set, because the host has an exact match too.
C26_NotAnyOnly ==
    /\ t_pc = "done" /\ t_out.offer = ALPN_H1 /\ t_out.alpn = "http/1.1"
    /\ t_seen[1].exact_matches # <<>>
    /\ t_seen[1].any_match # None /\ t_seen[1].any_match[1].opts.http2

-----------------------------------------------------------------------------
(* Catch-all paths                                                          *)

\* The Prefix and ImplementationSpecific paths that are absent, empty or "/".
CatchAllPaths == {raw_any, raw_root, raw_empty, raw_root_nobackend}

\* The ingresses in the map that have a catch-all path with a backend for host h.
CatchAllFor(h) ==
    {k \in DOMAIN ingresses :
        \E i \in 1..Len(ingresses[k].rules) :
            /\ ingresses[k].rules[i].host = h
            /\ \E j \in 1..Len(ingresses[k].rules[i].matches) :
                   /\ ingresses[k].rules[i].matches[j].path_match = <<"Any">>
                   /\ ingresses[k].rules[i].matches[j].backend # None}

\* C40: no key of prefix_matches in a published snapshot is "" or "/"; a
\* Prefix or ImplementationSpecific path that is absent, empty or "/" is an
\* Any match, and sets the host's any_match when it has a backend.
C40_NoCatchAllPrefix ==
    /\ \A h \in DOMAIN tx : "" \notin DOMAIN tx[h].prefix_matches
                            /\ "/" \notin DOMAIN tx[h].prefix_matches
    /\ \A p \in CatchAllPaths, d \in {None, Some("s2")} :
           IngressMatch_from_http_path(p, d)[1].path_match = <<"Any">>
    /\ ings_ready /\ secrets_ready
       => \A h \in {host_ab, host_AB, host_c} :
              CatchAllFor(h) # {} => h \in DOMAIN tx /\ tx[h].any_match # None

\* A snapshot was published for an ingress with the paths "/" and "": the
\* host has its any match, and its prefix match for "/b".
C40_Witness ==
    /\ ings_ready /\ secrets_ready
    /\ CatchAllFor(host_c) # {}
    /\ host_c \in DOMAIN tx
    /\ tx[host_c].any_match # None
    /\ DOMAIN tx[host_c].prefix_matches = {"/b"}

-----------------------------------------------------------------------------
(* The snapshot as a function of the maps                                   *)

\* The ingresses of the map with a rule for host h that has the match pm with
\* a backend.
Defining(h, pm) ==
    {k \in DOMAIN ingresses :
        \E i \in 1..Len(ingresses[k].rules) :
            /\ ingresses[k].rules[i].host = h
            /\ \E j \in 1..Len(ingresses[k].rules[i].matches) :
                   /\ ingresses[k].rules[i].matches[j].path_match = pm
                   /\ ingresses[k].rules[i].matches[j].backend # None}

\* The endpoints ingress k gives the match pm of host h.
EndpointsOf(k, h, pm) ==
    {IngressMatch_endpoint(ingresses[k].rules[i].matches[j], ingresses[k].endpoint_opts)[1] :
        <<i, j>> \in {ij \in (1..Len(ingresses[k].rules)) \X (1..4) :
                        /\ ingresses[k].rules[ij[1]].host = h
                        /\ ij[2] <= Len(ingresses[k].rules[ij[1]].matches)
                        /\ ingresses[k].rules[ij[1]].matches[ij[2]].path_match = pm
                        /\ ingresses[k].rules[ij[1]].matches[ij[2]].backend # None}}

\* What the snapshot holds for the match pm of host h, as a set.
Published(h, pm) ==
    IF h \notin DOMAIN tx THEN {}
    ELSE IF pm = <<"Any">> THEN Opt_set(tx[h].any_match)
    ELSE IF pm[1] = "Exact"
    THEN {tx[h].exact_matches[p] : p \in DOMAIN tx[h].exact_matches \cap {pm[2]}}
    ELSE {tx[h].prefix_matches[p] : p \in DOMAIN tx[h].prefix_matches \cap {pm[2]}}

PathMatches == {<<"Any">>, <<"Exact", "/a">>, <<"Prefix", "/b">>}

\* C36: the published snapshot is the assembly of the current ingress and
\* secret maps and of nothing else; a host has its tls_key_cert exactly when
\* the secret its TLS section names is in the secret map; and of the ingresses
\* that define the same host and path the one with the greatest key gives the
\* endpoint.
C36_FunctionOfMaps ==
    ings_ready /\ secrets_ready =>
        /\ tx = assemble(ingresses, secrets)
        /\ \A h \in DOMAIN tx :
               tx[h].tls_key_cert # None
               <=> tx[h].tls_secret # None /\ tx[h].tls_secret[1] \in DOMAIN secrets
        /\ \A h \in {host_ab, host_AB, host_c}, pm \in PathMatches :
               Defining(h, pm) # {}
               => /\ Published(h, pm) # {}
                  /\ Published(h, pm) \subseteq EndpointsOf(Greatest(Defining(h, pm)), h, pm)

\* Two ingresses define the exact path /a of a.b with different services, and
\* the snapshot has the one of the greater key.
C36_Witness ==
    /\ ings_ready /\ secrets_ready
    /\ Cardinality(Defining(host_ab, <<"Exact", "/a">>)) = 2
    /\ tx[host_ab].exact_matches["/a"].service = "s2"

\* A host has its certificate, and a host names a secret that is not there.
C36_Cert ==
    /\ ings_ready /\ secrets_ready
    /\ host_c \in DOMAIN tx /\ tx[host_c].tls_key_cert # None

C36_NoCert ==
    /\ ings_ready /\ secrets_ready
    /\ host_c \in DOMAIN tx /\ tx[host_c].tls_secret # None /\ tx[host_c].tls_key_cert = None

-----------------------------------------------------------------------------
(* Termination and cancellation of Cache::resolve                           *)

\* Is task t inside Cache::resolve, past the lock of the LruCache?
Inside(t) == pc[t] \in {"get_or_insert", "slot_lock", "resolving", "no_cache"}

\* The task holding the LruCache's lock holds no slot's Mutex, and a task
\* that has still to take the LruCache's lock holds none either.
NoLruWaitUnderSlot ==
    \A t \in Tasks :
        (lruOwner = t \/ pc[t] = "idle") => \A s \in Slots : slotOwner[s] # t

\* C37: every Cache::resolve call returns when the underlying resolver calls
\* return and the locks are fair; no task holds a slot's Mutex while it has
\* the LruCache's lock to take or holds it.
C37_Terminates ==
    /\ \A t \in Tasks : Inside(t) ~> pc[t] = "done"
    /\ []NoLruWaitUnderSlot

\* A task waits for the Mutex of a slot whose holder is in its underlying
\* call, while a third call could not be more in the way.
C37_Witness ==
    \E t \in Tasks, u \in Tasks :
        /\ pc[t] = "slot_lock" /\ pc[u] = "resolving"
        /\ entry[t] = entry[u] /\ slotOwner[entry[u]] = u

\* C38: when a task is cancelled during its underlying resolver call, the
\* slot keeps the content it had before the call, empty or expired, and its
\* Mutex is free: the next resolver of the key is not blocked and makes its
\* own underlying call.
C38_Cancelled ==
    [][\A t \in Tasks :
          pc[t] = "resolving" /\ pc'[t] = "idle"
          => /\ slotOwner'[entry[t]] = 0
             /\ slotVal[entry[t]] = NoResult \/ is_expired(slotVal[entry[t]])
             /\ entry[t] \in Live(lru', entry') => slotVal'[entry[t]] = slotVal[entry[t]]]_vars

\* After a cancellation during the underlying call, another task made the
\* slot's second underlying call.
C38_Witness ==
    \E t \in Tasks, u \in Tasks :
        /\ found[t] = "cancelled" /\ pc[t] = "idle"
        /\ pc[u] = "resolving" /\ key[u] = key[t]
        /\ slotCalls[entry[u]] = 2 /\ ~slotStale[entry[u]]

-----------------------------------------------------------------------------
(* The first line: Reader::request_line and Reader::status_line             *)

\* The three fields of s split at its first two spaces and the CR after them.
LiteralFields(s) ==
    LET sp1 == FirstOf(s, 1, {32})
        sp2 == FirstOf(s, sp1 + 1, {32})
        cr == FirstOf(s, sp2 + 1, {13})
    IN  <<SubSeq(s, 1, sp1 - 1), SubSeq(s, sp1 + 1, sp2 - 1), SubSeq(s, sp2 + 1, cr - 1)>>

\* Where the fields of s begin and end when the spaces and tabs that follow a
\* separating space belong to the separator: the first space, the begin of
\* the second field, the space after it, the begin of the third field, its
\* CR; 0 from the first that is missing.
Marks(s) ==
    LET sp1 == FirstOf(s, 1, {32})
        b2 == IF sp1 = 0 THEN 0 ELSE FirstNotOf(s, sp1 + 1, {32, 9})
        sp2 == IF b2 = 0 THEN 0 ELSE FirstOf(s, b2, {32})
        b3 == IF sp2 = 0 THEN 0 ELSE FirstNotOf(s, sp2 + 1, {32, 9})
        cr == IF b3 = 0 THEN 0 ELSE FirstOf(s, b3, {13})
    IN  [sp1 |-> sp1, b2 |-> b2, sp2 |-> sp2, b3 |-> b3, cr |-> cr]

SkippingFields(s) ==
    LET m == Marks(s)
    IN  <<SubSeq(s, 1, m.sp1 - 1), SubSeq(s, m.b2, m.sp2 - 1), SubSeq(s, m.b3, m.cr - 1)>>

\* Is one of the bytes in bytes among p[from..], before any byte of ends?
Before(p, from, bytes, ends) ==
    \E i \in from..Len(p) :
        p[i] \in bytes /\ \A j \in from..(i - 1) : p[j] \notin ends

\* The bytes p hold what makes a first line invalid: a CR or LF in the first
\* or second field, an LF in the third, or a CR ending the third field that
\* is not followed by LF.
BadLine(p) ==
    LET m == Marks(p) IN
    \/ Before(p, 1, {13, 10}, {32})
    \/ m.b2 # 0 /\ Before(p, m.b2, {13, 10}, {32})
    \/ m.b3 # 0 /\ Before(p, m.b3, {10}, {13})
    \/ m.cr # 0 /\ m.cr < Len(p) /\ p[m.cr + 1] # 10

\* The bytes p hold a whole first line.
WholeLine(p) == ~BadLine(p) /\ Marks(p).cr # 0 /\ Marks(p).cr < Len(p)

\* What the claim says of a first-line call c made on the bytes s, with the
\* fields of a line that is read being fields(s).
FirstLine(s, c, fields(_)) ==
    LET p == SubSeq(s, 1, Min(c.ranger, Len(s))) IN
    /\ c.err \in {"", "InvalidInput", "LimitReached"}
    /\ c.err = "" => WholeLine(p) /\ Len(c.fields) = 3 /\ c.fields = fields(s)
    /\ BadLine(p) => c.err = "InvalidInput"
    /\ ~BadLine(p) /\ ~WholeLine(p) /\ Len(s) < c.ranger => c.err = "InvalidInput"
    /\ ~BadLine(p) /\ ~WholeLine(p) /\ Len(s) >= c.ranger => c.err = "LimitReached"
    /\ WholeLine(p) /\ c.op = "request_line" => c.err = ""
    /\ WholeLine(p) /\ c.op = "status_line" => c.err \in {"", "InvalidInput"}

\* C31: request_line and status_line return three fields, split at the first
\* two spaces, each with the spaces and tabs that follow it, and at the CR;
\* within the first max_bytes bytes a CR or LF in the first or second field,
\* an LF in the third, a CR ending the third that LF does not follow, or the
\* end of the input before the line is whole, fails with InvalidInput; a
\* line not whole within max_bytes bytes fails with LimitReached.
C31_FirstLine ==
    [][k_call.op = "none" /\ k_call'.op \in {"request_line", "status_line"}
       => FirstLine(k_wire, k_call', SkippingFields)]_vars

\* A first line was read that has more than one byte between two fields.
C31_Witness ==
    /\ k_call.op \in {"request_line", "status_line"} /\ k_call.err = ""
    /\ k_call.count > Len(k_call.fields[1]) + Len(k_call.fields[2]) + Len(k_call.fields[3]) + 4

\* C31 as stated: the fields are those split at the first two spaces alone.
C31_AsStated ==
    [][k_call.op = "none" /\ k_call'.op \in {"request_line", "status_line"}
       => FirstLine(k_wire, k_call', LiteralFields)]_vars

-----------------------------------------------------------------------------
(* The HeaderSummary and the headers of the header block                    *)

\* content_length() of the reader were its summary sum.
length_with(sum) ==
    IF kind.tag = "Request" THEN request_length(sum, kind.method)
    ELSE IF kind.tag = "Response" THEN response_length(sum, kind.status_code)
    ELSE None

\* C32: after EndOfHeader content_length() reflects every Content-Length,
\* Transfer-Encoding and Connection header of the header block, whether its
\* value was read with header_value or with skip_header_value, and a
\* Content-Length that is not a u64 makes the read fail with InvalidInput.
C32_EveryHeader ==
    /\ on_wire.err # "" => hpc = "error"
    /\ hpc = "body" => on_wire.err = "" /\ body_length = length_with(on_wire.summary)

-----------------------------------------------------------------------------
(* The backend connections of one client connection                         *)

\* The Backend values the handler owns: the one in use and the carried-over
\* one; none once the function has returned and its locals are dropped.
HeldBackends ==
    IF h_pc \in {"returned", "closed"} THEN {}
    ELSE ({backend} \ {0}) \cup (IF prev = None THEN {} ELSE {prev[1].backend})

\* The backends connected to so far, and those shut down.
Connected ==
    {Cardinality({j \in Dials(backend_log) : j < i}) + 1 :
        i \in {i \in Dials(backend_log) : backend_log[i][3] = "Ok"}}

ShutDown == {backend_log[i][2] : i \in {i \in 1..Len(backend_log) : backend_log[i][1] = "shutdown"}}

-----------------------------------------------------------------------------
(* The framing of requests and responses                                    *)

\* The elements of s after its element at, n of them or as many as there are.
NextOf(s, at, n) == SubSeq(s, at + 1, Min(at + n, Len(s)))

\* The body bytes copy_req wrote: the client's next ones after the header
\* block, no more of them than the request's length when it is known; and
\* all of these once copy_req is over, up to the end of the client's stream.
RequestFramed ==
    x_pc \in {"select", "copy", "after"} =>
        /\ x_to_backend = NextOf(x_client, x_hdr_end, Len(x_to_backend))
        /\ x_pos = x_hdr_end + Len(x_to_backend)
        /\ x_req_len # None => Len(x_to_backend) <= x_req_len[1]
        /\ x_req_st = "done" /\ x_req_len # None
           => x_to_backend = NextOf(x_client, x_hdr_end, x_req_len[1])
        /\ x_req_st = "done" /\ x_req_len = None
           => x_to_backend = NextOf(x_client, x_hdr_end, Len(x_client))

\* The same of the response's body and copy_resp.
ResponseFramed ==
    x_hdr_st = "done" =>
        /\ x_to_client = NextOf(x_resp, 1, Len(x_to_client))
        /\ x_resp_len # None => Len(x_to_client) <= x_resp_len[1]
        /\ x_resp_st = "done" /\ x_resp_len # None
           => x_to_client = NextOf(x_resp, 1, x_resp_len[1])
        /\ x_resp_st = "done" /\ x_resp_len = None
           => x_to_client = NextOf(x_resp, 1, Len(x_resp))

\* A request line is parsed after a request only when that request's length
\* was known, and then from the byte after its body.
NextRequestFramed ==
    \A i \in 2..Len(x_parsed) :
        /\ x_parsed[i - 1].len # None
        /\ x_parsed[i].at = x_parsed[i - 1].at + x_parsed[i - 1].len[1] + 1

\* C33: of a request whose body length N is known, the next N client bytes
\* after the header block, and no other, are forwarded as its body, and the
\* byte after them is where the next request line is parsed; of one whose
\* length is unknown, all client bytes up to the client's EOF are forwarded
\* and no request is parsed after it. A response of known length L has its
\* next L bytes copied to the client, one of unknown length all up to the
\* backend's EOF.
C33_Framing ==
    /\ RequestFramed
    /\ ResponseFramed
    /\ NextRequestFramed

\* A second request line was parsed after a request with a body forwarded
\* whole, whose response had a body of known length copied whole.
C33_Witness ==
    /\ Len(x_parsed) = 2 /\ x_parsed[1].len = Some(1) /\ x_parsed[2].at = 3
    /\ x_pc = "after" /\ x_result = "true"
    /\ x_resp = <<201, 1, 2>> /\ x_to_client = <<1>>
    /\ x_req_len = Some(1) /\ Len(x_to_backend) = 1

-----------------------------------------------------------------------------
(* The response header copied to the client                                 *)

\* C34: through CopyingBytePeekRead the bytes written to the client are the
\* bytes the Reader consumed, in their order, each once and unchanged, those
\* still in read_buf to come; a byte that was only peeked is not written; and
\* when copy_response_header returns Ok the status line and the header block
\* are written whole and no byte of the body is.
C34_HeaderCopied ==
    /\ y_out \o y_read_buf = y_consumed
    /\ y_consumed \o y_buf \o y_src = y_wire
    /\ y_pc = "ok" => y_end >= 0 /\ y_out = SubSeq(y_wire, 1, y_end)

\* copy_response_header returned Ok on a folded header read in more than one
\* fill of the buffer, with the first byte of the body in the buffer.
C34_Witness ==
    /\ y_pc = "ok"
    /\ y_wire = y_status \o y_folded \o y_crlf \o y_body
    /\ y_buf = <<120>> /\ y_src = <<121>>


-----------------------------------------------------------------------------
(* handle_http2_connection.                                                 *)

\* The host of the connection's server name in the snapshot read at dispatch.
DispatchHost == IF host_c \in DOMAIN d_at[1] THEN Some(d_at[1][host_c]) ELSE None

\* The host and its any_match are present in the snapshot read at dispatch.
StillThere == DispatchHost # None /\ DispatchHost[1].any_match # None

\* Both streams carry exactly the bytes read from the other side so far.
CopiedUnchanged ==
    /\ d_to_backend = SubSeq(d_client, 1, d_a_pos)
    /\ d_to_client = SubSeq(d_server, 1, d_b_pos)

\* C35: on a connection that negotiated h2, the handler looks the server
\* name up in the snapshot current at dispatch and calls Backend::connect with
\* that snapshot's any_match endpoint and ALPN h2; when the host or its
\* any_match is gone, or the connect fails, it returns without a byte
\* forwarded; otherwise each stream receives, unchanged, the bytes read from
\* the other, a direction ends only at the close of its source, and the copy
\* returns Ok only once both sides have closed and all was copied.
C35_Http2 ==
    /\ d_at # None =>
        /\ StillThere <=> d_dial # None
        /\ d_dial # None =>
            /\ d_dial[1].endpoint = DispatchHost[1].any_match[1]
            /\ d_dial[1].alpn_protos = ALPN_H2
        /\ ~StillThere => d_pc = "returned" /\ d_result = "closed"
    /\ d_conn \in {"LookupFailed", "ConnectFailed"} => d_pc = "returned" /\ d_result = "closed"
    /\ d_result = "closed" =>
        /\ ~StillThere \/ d_conn \in {"LookupFailed", "ConnectFailed"}
        /\ d_to_backend = <<>> /\ d_to_client = <<>>
        /\ d_a_to_b = "" /\ d_b_to_a = ""
    /\ d_conn = "Ok" => d_pc \in {"copy", "returned"} /\ d_result \in {"", "Ok", "Err"}
    /\ CopiedUnchanged
    /\ d_a_to_b = "Done" => d_to_backend = d_client
    /\ d_b_to_a = "Done" => d_to_client = d_server
    /\ d_result = "Ok" => d_a_to_b = "Done" /\ d_b_to_a = "Done"

\* The host was moved to another backend between the handshake and the
\* dispatch, both sides closed and each received the other's bytes, which
\* are no HTTP.
C35_Witness ==
    /\ d_result = "Ok"
    /\ d_seen = cfg_ready
    /\ d_at = Some(host_c :> cfg_ready_moved)
    /\ d_dial = Some([endpoint |-> Endpoint_h2("s2", TRUE, TRUE), alpn_protos |-> ALPN_H2])
    /\ d_client = <<80, 0>>
    /\ d_server = <<0, 80>>
    /\ d_to_backend = <<80, 0>>
    /\ d_to_client = <<0, 80>>

\* C35 as stated: the copy lasts until either side closes, so that no byte
\* moves in a direction once one of the sources has closed.
C35_AsStated ==
    [][d_a_to_b = "Done" \/ d_b_to_a = "Done" => UNCHANGED <<d_to_backend, d_to_client>>]_vars

====
